---- MODULE Spec2Model ----
(***************************************************************************)
(* ECB guide -> JSON extractor (json_parserv3.py and its earlier variants). *)
(*                                                                         *)
(* A text is a sequence of characters.  A character is a one-character     *)
(* string, except for a few named tokens that stand for a fixed run of     *)
(* characters the patterns treat as a unit:                                *)
(*   "NL"   the line break "\n"          "SHY"  the soft hyphen U+00AD      *)
(*   "--"   the en dash U+2013 of the running header                       *)
(*   "ECB guide to internal models"  the running title (28 letters/spaces) *)
(*   "Table", "Relevant regulatory references", "Contents"  literal words  *)
(*   "x200" a run of 200 lower-case letters                                *)
(* Font sizes are in tenths of a point (18.0pt = 180).                     *)
(***************************************************************************)
EXTENDS Integers, Sequences, FiniteSets, TLC

(* ------------------------------ bounds -------------------------------- *)
MaxPages == 2
MaxBlocks == 4

(* ----------------------- heuristics / patterns ------------------------ *)
TITLE_MIN_PT == 180
HEADING_MIN_PT == 125
FOOTNOTE_MAX_PT == 85

RUNNING_TITLE == "ECB guide to internal models"
EN_DASH == "--"

NA == <<"N", "/", "A">>

None == <<>>
Some(x) == <<x>>

IsDigit(c) == c \in {"0", "1", "2", "3", "4", "5", "6", "7", "8", "9"}
IsSpace(c) == c \in {" ", "NL"}
IsUpper(c) ==
    c \in {"A", "B", "C", "D", "E", "F", "G", "H", "I", "J", "K", "L", "M",
           "N", "O", "P", "Q", "R", "S", "T", "U", "V", "W", "X", "Y", "Z"}

DigitVal(c) ==
    CASE c = "0" -> 0 [] c = "1" -> 1 [] c = "2" -> 2 [] c = "3" -> 3
      [] c = "4" -> 4 [] c = "5" -> 5 [] c = "6" -> 6 [] c = "7" -> 7
      [] c = "8" -> 8 [] c = "9" -> 9

(* Number of characters a token stands for (len() counts characters).      *)
CharLen(c) ==
    CASE c = RUNNING_TITLE -> 28
      [] c = "Table" -> 5
      [] c = "Relevant regulatory references" -> 30
      [] c = "Contents" -> 8
      [] c = "x200" -> 200
      [] c = "NL" -> 1
      [] c = "SHY" -> 1
      [] c = EN_DASH -> 1
      [] OTHER -> 1

RECURSIVE TextLen(_)
TextLen(s) == IF s = <<>> THEN 0 ELSE CharLen(Head(s)) + TextLen(Tail(s))

(* str.lower(): only the capitalised tokens of the alphabet change.        *)
LowerChar(c) ==
    CASE c = "A" -> "a" [] c = "B" -> "b" [] c = "C" -> "c"
      [] c = "F" -> "f" [] c = "G" -> "g"
      [] c = "Contents" -> "contents"
      [] c = "Table" -> "table"
      [] OTHER -> c

Lower(s) == [k \in 1..Len(s) |-> LowerChar(s[k])]

(* First index >= i whose character is not a space / not a digit           *)
(* (Len(s)+1 when the run reaches the end): where \s* and \d* stop.        *)
RECURSIVE SkipSpaces(_, _)
SkipSpaces(s, i) ==
    IF i <= Len(s) /\ IsSpace(s[i]) THEN SkipSpaces(s, i + 1) ELSE i

RECURSIVE SkipDigits(_, _)
SkipDigits(s, i) ==
    IF i <= Len(s) /\ IsDigit(s[i]) THEN SkipDigits(s, i + 1) ELSE i

RECURSIVE DigitsToInt(_)
DigitsToInt(s) ==
    IF s = <<>> THEN 0
    ELSE 10 * DigitsToInt(SubSeq(s, 1, Len(s) - 1)) + DigitVal(s[Len(s)])

(* str.strip()                                                             *)
RECURSIVE RStrip(_)
RStrip(s) ==
    IF s # <<>> /\ IsSpace(s[Len(s)]) THEN RStrip(SubSeq(s, 1, Len(s) - 1)) ELSE s

Strip(s) == RStrip(SubSeq(s, SkipSpaces(s, 1), Len(s)))

(* Number of spaces inside the run of characters a token stands for.       *)
InnerSpaces(c) ==
    CASE c = RUNNING_TITLE -> 4
      [] c = "Relevant regulatory references" -> 2
      [] OTHER -> 0

RECURSIVE SumInnerSpaces(_)
SumInnerSpaces(s) ==
    IF s = <<>> THEN 0 ELSE InnerSpaces(Head(s)) + SumInnerSpaces(Tail(s))

(* len(txt.split()): number of maximal runs of non-space characters.       *)
WordCount(s) ==
    Cardinality({k \in 1..Len(s) :
                   ~IsSpace(s[k]) /\ (k = 1 \/ IsSpace(s[k - 1]))})
    + SumInnerSpaces(s)

(* " ".join(buf)                                                           *)
RECURSIVE Join(_)
Join(b) ==
    IF b = <<>> THEN <<>>
    ELSE IF Len(b) = 1 THEN b[1]
    ELSE b[1] \o <<" ">> \o Join(Tail(b))

(* s.replace(c, "") for a single character c                               *)
RECURSIVE RemoveChar(_, _)
RemoveChar(s, c) ==
    IF s = <<>> THEN <<>>
    ELSE IF Head(s) = c THEN RemoveChar(Tail(s), c)
    ELSE <<Head(s)>> \o RemoveChar(Tail(s), c)

(* The second replace, had it removed the line break and kept the hyphen. *)
RECURSIVE RemoveHyphenBreaks_keeps_hyphen(_)
RemoveHyphenBreaks_keeps_hyphen(s) ==
    IF s = <<>> THEN <<>>
    ELSE IF Len(s) >= 2 /\ s[1] = "-" /\ s[2] = "NL"
         THEN <<"-">> \o RemoveHyphenBreaks_keeps_hyphen(SubSeq(s, 3, Len(s)))
    ELSE <<Head(s)>> \o RemoveHyphenBreaks_keeps_hyphen(Tail(s))

(* s.replace("-\n", "")                                                    *)
RECURSIVE RemoveHyphenBreaks(_)
RemoveHyphenBreaks(s) ==
    IF s = <<>> THEN <<>>
    ELSE IF Len(s) >= 2 /\ s[1] = "-" /\ s[2] = "NL"
         THEN RemoveHyphenBreaks(SubSeq(s, 3, Len(s)))
    ELSE <<Head(s)>> \o RemoveHyphenBreaks(Tail(s))

(* s.replace("\n", " ")                                                    *)
BreaksToSpaces(s) == [k \in 1..Len(s) |-> IF s[k] = "NL" THEN " " ELSE s[k]]

(* re.sub(r"\s+", " ", s)                                                  *)
RECURSIVE CollapseSpaces(_)
CollapseSpaces(s) ==
    IF s = <<>> THEN <<>>
    ELSE IF IsSpace(s[1])
         THEN <<" ">> \o CollapseSpaces(SubSeq(s, SkipSpaces(s, 1), Len(s)))
    ELSE <<Head(s)>> \o CollapseSpaces(Tail(s))

(* ------------------------- running header ----------------------------- *)
(* HEADER_STRIP_RE = "ECB guide to internal models\s+--\s+.*?\s+\d+\s*"     *)
(* tried at index p.  After the title, the dash and the spaces that follow *)
(* it (which end before index r), the lazy ".*?" stops at the first q      *)
(* where a run of spaces is followed by a digit; only when there is no     *)
(* such q does "\s+" after the dash give a space back, so that the digits  *)
(* may start at r itself.  The result is the index after the match, or 0.  *)
HeaderDash(s, p) ==
    IF p <= Len(s) /\ s[p] = RUNNING_TITLE /\ p + 1 <= Len(s) /\ IsSpace(s[p + 1])
    THEN LET k == SkipSpaces(s, p + 1)
         IN  IF k + 1 <= Len(s) /\ s[k] = EN_DASH /\ IsSpace(s[k + 1]) THEN k ELSE 0
    ELSE 0

HeaderLazyStops(s, r) ==
    {q \in r..Len(s) :
        /\ IsSpace(s[q])
        /\ SkipSpaces(s, q) <= Len(s)
        /\ IsDigit(s[SkipSpaces(s, q)])
        /\ \A j \in r..(q - 1) : s[j] # "NL"}

Min(S) == CHOOSE x \in S : \A y \in S : x <= y
Max(S) == CHOOSE x \in S : \A y \in S : x >= y

HeaderStripEnd(s, p) ==
    LET k == HeaderDash(s, p)
    IN  IF k = 0 THEN 0
        ELSE LET r  == SkipSpaces(s, k + 1)
                 Q  == HeaderLazyStops(s, r)
             IN  IF Q # {}
                 THEN SkipSpaces(s, SkipDigits(s, SkipSpaces(s, Min(Q))))
                 ELSE IF r - (k + 1) >= 2 /\ r <= Len(s) /\ IsDigit(s[r])
                      THEN SkipSpaces(s, SkipDigits(s, r))
                      ELSE 0

(* HEADER_STRIP_RE.sub(" ", s): leftmost, non-overlapping matches.          *)
RECURSIVE HeaderStrip(_)
HeaderStrip(s) ==
    IF s = <<>> THEN <<>>
    ELSE LET e == HeaderStripEnd(s, 1)
         IN  IF e # 0 THEN <<" ">> \o HeaderStrip(SubSeq(s, e, Len(s)))
             ELSE <<Head(s)>> \o HeaderStrip(Tail(s))

normalize_text(s) ==
    LET s1 == BreaksToSpaces(RemoveHyphenBreaks(RemoveChar(s, "SHY")))
        s2 == HeaderStrip(s1)
    IN  Strip(CollapseSpaces(s2))

(* HEADER_NUM_RE = "ECB guide to internal models\s+--\s+.*?\s+(\d+)\s*$"    *)
(* .search(raw): the pattern is anchored at the end, so group 1 is the     *)
(* last run of digits of the text (trailing spaces apart), which must      *)
(* follow a space that is not the first space after the dash.  The result  *)
(* is <<>> (no match) or <<digits>>.  The text searched is the             *)
(* concatenation of a block's spans, which holds no line break.            *)
HeaderNumAt(s, p) ==
    LET k  == HeaderDash(s, p)
        e  == Len(RStrip(s))
        d0 == Min({d \in 1..(e + 1) : \A j \in d..e : IsDigit(s[j])})
    IN  /\ k # 0
        /\ d0 <= e
        /\ d0 - 1 >= k + 2
        /\ IsSpace(s[d0 - 1])

HEADER_NUM_RE_search(s) ==
    IF \E p \in 1..Len(s) : HeaderNumAt(s, p)
    THEN LET e  == Len(RStrip(s))
             d0 == Min({d \in 1..(e + 1) : \A j \in d..e : IsDigit(s[j])})
         IN  Some(SubSeq(s, d0, e))
    ELSE None

(* ------------------------- heading patterns --------------------------- *)
(* Each matcher returns None or Some(group 1).  The texts they are given   *)
(* are normalized (no line break); "\s+(.+)$" then asks for a space        *)
(* followed by at least one more character.                                *)
HasLabelAt(s, j) ==
    /\ j + 1 <= Len(s)
    /\ IsSpace(s[j])
    /\ \A i \in (j + 1)..Len(s) : s[i] # "NL"

(* SUBSEC_NUMDOT_RE = "^\s*(\d+)\.(\d+)\s+(.+)$"                             *)
SUBSEC_NUMDOT_RE_match(s) ==
    LET i0 == SkipSpaces(s, 1)
        i1 == SkipDigits(s, i0)
        i2 == SkipDigits(s, i1 + 1)
    IN  IF /\ i1 > i0 /\ i1 <= Len(s) /\ s[i1] = "."
           /\ i2 > i1 + 1
           /\ HasLabelAt(s, i2)
        THEN Some(SubSeq(s, i0, i1 - 1))
        ELSE None

(* SUBSEC_ALPHADOT_RE = "^\s*([A-Z])\.(\d+)\s+(.+)$"                         *)
SUBSEC_ALPHADOT_RE_match(s) ==
    LET i0 == SkipSpaces(s, 1)
        i2 == SkipDigits(s, i0 + 2)
    IN  IF /\ i0 + 1 <= Len(s) /\ IsUpper(s[i0]) /\ s[i0 + 1] = "."
           /\ i2 > i0 + 2
           /\ HasLabelAt(s, i2)
        THEN Some(SubSeq(s, i0, i0))
        ELSE None

(* SEC_NUM_RE = "^\s*(\d+)\s+(.+)$"                                          *)
SEC_NUM_RE_match(s) ==
    LET i0 == SkipSpaces(s, 1)
        i1 == SkipDigits(s, i0)
    IN  IF i1 > i0 /\ HasLabelAt(s, i1)
        THEN Some(SubSeq(s, i0, i1 - 1))
        ELSE None

(* SEC_ALPHA_RE = "^\s*([A-Z])\s+(.+)$"                                      *)
SEC_ALPHA_RE_match(s) ==
    LET i0 == SkipSpaces(s, 1)
    IN  IF i0 <= Len(s) /\ IsUpper(s[i0]) /\ HasLabelAt(s, i0 + 1)
        THEN Some(SubSeq(s, i0, i0))
        ELSE None

(* PARA_START_RE = "^\s*(\d+)\.\s+": None, or <<group 1, m.end()>> with    *)
(* m.end() given as the index of the first character after the match.      *)
PARA_START_RE_match(s) ==
    LET i0 == SkipSpaces(s, 1)
        i1 == SkipDigits(s, i0)
    IN  IF /\ i1 > i0 /\ i1 + 1 <= Len(s) /\ s[i1] = "." /\ IsSpace(s[i1 + 1])
        THEN <<SubSeq(s, i0, i1 - 1), SkipSpaces(s, i1 + 1)>>
        ELSE None

TABLE_HEADING_PREFIXES == {<<"Table", " ">>, <<"Relevant regulatory references">>}

StartsWith(s, pfx) == Len(s) >= Len(pfx) /\ SubSeq(s, 1, Len(pfx)) = pfx

looks_like_table_heading(text) ==
    \E pfx \in TABLE_HEADING_PREFIXES : StartsWith(text, pfx)

(* --------------------------- the document ----------------------------- *)
(* A raw block is the sequence of its spans, each [text, size]; a page is  *)
(* the blocks of its header area (read when the page index map is built)   *)
(* followed by body blocks, which are drawn from `catalogue` as the        *)
(* extractor reads them and never match the running-header pattern.        *)
Span(t, sz) == [text |-> t, size |-> sz]
Block(t, sz) == <<Span(t, sz)>>

RECURSIVE RawText(_)
RawText(block) ==
    IF block = <<>> THEN <<>> ELSE Head(block).text \o RawText(Tail(block))

(* collect_blocks, for one block: None when the normalized text is empty,  *)
(* else Some([text, max_size]).                                            *)
collect_block(block) ==
    LET txt == normalize_text(RawText(block))
    IN  IF txt = <<>> THEN None
        ELSE Some([text     |-> txt,
                   max_size |-> IF block = <<>> THEN 0
                                ELSE Max({block[k].size : k \in 1..Len(block)})])

(* get_printed_page_number, had it taken the last block that matches. *)
RECURSIVE get_printed_page_number_last_match(_, _)
get_printed_page_number_last_match(hdr, number) ==
    IF hdr = <<>> THEN number + 1
    ELSE LET m == HEADER_NUM_RE_search(RawText(hdr[Len(hdr)]))
         IN  IF m # None THEN DigitsToInt(m[1])
             ELSE get_printed_page_number_last_match(SubSeq(hdr, 1, Len(hdr) - 1), number)

(* get_printed_page_number for physical page `number` (0-based) whose      *)
(* header area holds the raw blocks `hdr`.                                 *)
RECURSIVE get_printed_page_number(_, _)
get_printed_page_number(hdr, number) ==
    IF hdr = <<>> THEN number + 1
    ELSE LET m == HEADER_NUM_RE_search(RawText(Head(hdr)))
         IN  IF m # None THEN DigitsToInt(m[1])
             ELSE get_printed_page_number(Tail(hdr), number)

VARIABLES
    catalogue,            \* the raw body blocks a page may hold (input)
    headers,              \* headers[n]: header-area blocks of physical page n-1 (input)
    start_printed_page,   \* input
    end_printed_page,     \* input
    pc,                   \* "map", "loop", "blocks", "done"; a pass of a multi-pass variant
    i,                    \* loop index of the map construction
    printed_to_index,     \* dict: printed page number -> physical index
    printed,              \* loop variable of the driving loop
    title, section, subsection, chapter_id,
    cur_para, buf, results,
    nraw,                 \* raw blocks read so far in the run
    trace,                \* history: the collected blocks in the order processed,
                          \*          each with its page and the rule applied to it
    opened,               \* history: index in trace of the block that opened cur_para
    origin,               \* history: origin[k] is that index for results[k]
    visited,              \* history: the physical pages loaded, in order
    blocks,               \* multi-pass variants: the collected blocks of the page
    read,                 \* history: the blocks of the pages the passes are done with
    current_title, current_section, current_subsection, current_chapter_id,
                          \* json_parserv2: the heading context
    subtitle              \* json_parser: the numbered subtitle in force

vars == <<catalogue, headers, start_printed_page, end_printed_page, pc, i,
          printed_to_index, printed, title, section, subsection, chapter_id,
          cur_para, buf, results, nraw, trace, opened, origin, visited,
          blocks, read, current_title, current_section, current_subsection,
          current_chapter_id, subtitle>>

(* The state of the two multi-pass variants, which the single pass leaves  *)
(* alone.                                                                  *)
variants == <<blocks, read, current_title, current_section, current_subsection,
              current_chapter_id, subtitle>>

page_count == Len(headers)

(* ---------------------------- extract_json ---------------------------- *)
(* The classifier's state as one value, so that a rule is a function.      *)
State == [title |-> title, section |-> section, subsection |-> subsection,
          chapter_id |-> chapter_id, cur_para |-> cur_para, buf |-> buf,
          results |-> results]

(* x or "N/A"                                                              *)
OptOrNA(x) == IF x = None \/ x[1] = <<>> THEN NA ELSE x[1]
StrOrNA(x) == IF x = <<>> THEN NA ELSE x

(* flush, had it taken the record's headings from the context at flush time. *)
flush_restamped(st) ==
    LET t == normalize_text(Join(st.buf))
    IN  [st EXCEPT
           !.results  = IF st.cur_para # None /\ t # <<>>
                        THEN Append(@, [st.cur_para[1] EXCEPT
                                          !.text = t,
                                          !.title = OptOrNA(st.title),
                                          !.section = StrOrNA(st.section),
                                          !.subsection = StrOrNA(st.subsection)])
                        ELSE @,
           !.cur_para = None,
           !.buf      = <<>>]

(* flush, without the test for an empty text. *)
flush_always_appends(st) ==
    LET t == normalize_text(Join(st.buf))
    IN  [st EXCEPT
           !.results  = IF st.cur_para # None
                        THEN Append(@, [st.cur_para[1] EXCEPT !.text = t])
                        ELSE @,
           !.cur_para = None,
           !.buf      = <<>>]

(* flush, had it left the paragraph in flight and its buffer in place. *)
flush_keeps_paragraph(st) ==
    LET t == normalize_text(Join(st.buf))
    IN  [st EXCEPT
           !.results  = IF st.cur_para # None /\ t # <<>>
                        THEN Append(@, [st.cur_para[1] EXCEPT !.text = t])
                        ELSE @]

(* flush, had it put the record at the front of the output. *)
flush_prepending(st) ==
    LET t == normalize_text(Join(st.buf))
    IN  [st EXCEPT
           !.results  = IF st.cur_para # None /\ t # <<>>
                        THEN <<[st.cur_para[1] EXCEPT !.text = t]>> \o @
                        ELSE @,
           !.cur_para = None,
           !.buf      = <<>>]

(* flush, had it ended the paragraph in flight and kept the buffer. *)
flush_keeps_buffer(st) ==
    LET t == normalize_text(Join(st.buf))
    IN  [st EXCEPT
           !.results  = IF st.cur_para # None /\ t # <<>>
                        THEN Append(@, [st.cur_para[1] EXCEPT !.text = t])
                        ELSE @,
           !.cur_para = None]

flush(st) ==
    LET t == normalize_text(Join(st.buf))
    IN  [st EXCEPT
           !.results  = IF st.cur_para # None /\ t # <<>>
                        THEN Append(@, [st.cur_para[1] EXCEPT !.text = t])
                        ELSE @,
           !.cur_para = None,
           !.buf      = <<>>]

(* Big chapter titles                                                      *)
title_rule(b) ==
    /\ b.max_size >= TITLE_MIN_PT
    /\ TextLen(b.text) < 200
    /\ Lower(b.text) # <<"contents">>

(* The title branch, had it ended the paragraph in flight. *)
apply_title_flushing(st, b) ==
    [flush(st) EXCEPT !.title = Some(b.text), !.section = NA, !.subsection = NA,
                      !.chapter_id = None]

(* The title branch, had it left subsection as it was. *)
apply_title_keeps_subsection(st, b) ==
    [st EXCEPT !.title = Some(b.text), !.section = NA, !.chapter_id = None]

(* The title branch, had it left section as it was. *)
apply_title_keeps_section(st, b) ==
    [st EXCEPT !.title = Some(b.text), !.subsection = NA, !.chapter_id = None]

(* The title branch, had it left chapter_id as it was. *)
apply_title_keeps_chapter_id(st, b) ==
    [st EXCEPT !.title = Some(b.text), !.section = NA, !.subsection = NA]

apply_title(st, b) ==
    [st EXCEPT !.title = Some(b.text), !.section = NA, !.subsection = NA,
               !.chapter_id = None]

(* The heading sub-rules without the word-count guards. *)
heading_rule_no_word_guard(b) ==
    IF b.max_size >= HEADING_MIN_PT
    THEN IF SUBSEC_NUMDOT_RE_match(b.text) # None
           THEN SUBSEC_NUMDOT_RE_match(b.text)
         ELSE IF SUBSEC_ALPHADOT_RE_match(b.text) # None
           THEN SUBSEC_ALPHADOT_RE_match(b.text)
         ELSE IF SEC_NUM_RE_match(b.text) # None
           THEN SEC_NUM_RE_match(b.text)
         ELSE IF SEC_ALPHA_RE_match(b.text) # None
           THEN SEC_ALPHA_RE_match(b.text)
         ELSE None
    ELSE None

(* The heading sub-rules without the last one (SEC_ALPHA_RE). *)
heading_rule_no_alpha_section(b) ==
    IF b.max_size >= HEADING_MIN_PT
    THEN IF SUBSEC_NUMDOT_RE_match(b.text) # None
           THEN SUBSEC_NUMDOT_RE_match(b.text)
         ELSE IF SUBSEC_ALPHADOT_RE_match(b.text) # None
           THEN SUBSEC_ALPHADOT_RE_match(b.text)
         ELSE IF SEC_NUM_RE_match(b.text) # None /\ WordCount(b.text) > 2
           THEN SEC_NUM_RE_match(b.text)
         ELSE None
    ELSE None

(* Section / subsection headings: None, or Some(group 1) of the first      *)
(* sub-rule that matches.                                                  *)
heading_rule(b) ==
    IF b.max_size >= HEADING_MIN_PT
    THEN IF SUBSEC_NUMDOT_RE_match(b.text) # None
           THEN SUBSEC_NUMDOT_RE_match(b.text)
         ELSE IF SUBSEC_ALPHADOT_RE_match(b.text) # None
           THEN SUBSEC_ALPHADOT_RE_match(b.text)
         ELSE IF SEC_NUM_RE_match(b.text) # None /\ WordCount(b.text) > 2
           THEN SEC_NUM_RE_match(b.text)
         ELSE IF SEC_ALPHA_RE_match(b.text) # None /\ WordCount(b.text) > 2
           THEN SEC_ALPHA_RE_match(b.text)
         ELSE None
    ELSE None

apply_heading(st, b, m) ==
    [st EXCEPT !.chapter_id = Some(m[1]), !.section = OptOrNA(st.title),
               !.subsection = b.text]

(* Skip tiny footnotes and table headings                                  *)
(* The skip test, had it spared table captions of heading size. *)
skip_rule_below_heading_size(b) ==
    \/ b.max_size < FOOTNOTE_MAX_PT
    \/ looks_like_table_heading(b.text) /\ b.max_size < HEADING_MIN_PT

(* The skip test without the footnote size. *)
skip_rule_tables_only(b) == looks_like_table_heading(b.text)

skip_rule(b) == b.max_size < FOOTNOTE_MAX_PT \/ looks_like_table_heading(b.text)

(* Numbered paragraphs                                                     *)
open_paragraph(st, b, m, page) ==
    LET f    == flush(st)
        rest == Strip(SubSeq(b.text, m[2], Len(b.text)))
    IN  [f EXCEPT
           !.cur_para = Some([title            |-> OptOrNA(st.title),
                              section          |-> StrOrNA(st.section),
                              subsection       |-> StrOrNA(st.subsection),
                              paragraph_number |-> m[1],
                              page             |-> page,
                              text             |-> <<>>]),
           !.buf      = IF rest # <<>> THEN <<rest>> ELSE <<>>]

(* The continuation branch without its test for a paragraph in flight. *)
continuation_unguarded(st, b) == [st EXCEPT !.buf = Append(@, b.text)]

continuation(st, b) ==
    IF st.cur_para # None THEN [st EXCEPT !.buf = Append(@, b.text)] ELSE st

(* The if-statements, had the paragraph-start test come first. *)
classify_paragraph_first(b) ==
    IF PARA_START_RE_match(b.text) # None THEN "para"
    ELSE IF title_rule(b) THEN "title"
    ELSE IF heading_rule(b) # None THEN "heading"
    ELSE IF skip_rule(b) THEN "skip"
    ELSE "cont"

(* The rules, had a block of heading size that is neither a title nor a    *)
(* heading been discarded.                                                 *)
classify_large_discarded(b) ==
    IF title_rule(b) THEN "title"
    ELSE IF heading_rule(b) # None THEN "heading"
    ELSE IF b.max_size >= HEADING_MIN_PT \/ skip_rule(b) THEN "skip"
    ELSE IF PARA_START_RE_match(b.text) # None THEN "para"
    ELSE "cont"

(* The rule the body of "for b in blocks" applies to b: the first of the    *)
(* if-statements, top to bottom, that b reaches and satisfies.             *)
classify(b) ==
    IF title_rule(b) THEN "title"
    ELSE IF heading_rule(b) # None THEN "heading"
    ELSE IF skip_rule(b) THEN "skip"
    ELSE IF PARA_START_RE_match(b.text) # None THEN "para"
    ELSE "cont"

(* The body of the loop, had a skipped block ended the paragraph in flight. *)
process_block_skip_flushes(st, b, page) ==
    CASE classify(b) = "title"   -> apply_title(st, b)
      [] classify(b) = "heading" -> apply_heading(st, b, heading_rule(b))
      [] classify(b) = "skip"    -> flush(st)
      [] classify(b) = "para"    ->
            open_paragraph(st, b, PARA_START_RE_match(b.text), page)
      [] classify(b) = "cont"    -> continuation(st, b)

(* The body of "for b in blocks", on page `page`.                          *)
process_block(st, b, page) ==
    CASE classify(b) = "title"   -> apply_title(st, b)
      [] classify(b) = "heading" -> apply_heading(st, b, heading_rule(b))
      [] classify(b) = "skip"    -> st
      [] classify(b) = "para"    ->
            open_paragraph(st, b, PARA_START_RE_match(b.text), page)
      [] classify(b) = "cont"    -> continuation(st, b)

SetState(st) ==
    /\ title' = st.title
    /\ section' = st.section
    /\ subsection' = st.subsection
    /\ chapter_id' = st.chapter_id
    /\ cur_para' = st.cur_para
    /\ buf' = st.buf
    /\ results' = st.results

inputs == <<catalogue, headers, start_printed_page, end_printed_page>>
context == <<title, section, subsection, chapter_id>>
paragraph == <<cur_para, buf, results>>

(* The map construction, had it kept the first page of a printed number. *)
BuildMap_keeps_first ==
    /\ pc = "map"
    /\ i < page_count
    /\ LET n == get_printed_page_number(headers[i + 1], i)
       IN  printed_to_index' =
             [k \in (DOMAIN printed_to_index) \cup {n} |->
                IF k \in DOMAIN printed_to_index THEN printed_to_index[k] ELSE i]
    /\ i' = i + 1
    /\ UNCHANGED <<inputs, variants, pc, printed, context, paragraph, nraw, trace,
                   opened, origin, visited>>

(* printed_to_index[get_printed_page_number(doc.load_page(i))] = i         *)
BuildMap ==
    /\ pc = "map"
    /\ i < page_count
    /\ LET n == get_printed_page_number(headers[i + 1], i)
       IN  printed_to_index' =
             [k \in (DOMAIN printed_to_index) \cup {n} |->
                IF k = n THEN i ELSE printed_to_index[k]]
    /\ i' = i + 1
    /\ UNCHANGED <<inputs, variants, pc, printed, context, paragraph, nraw, trace,
                   opened, origin, visited>>

StartLoop ==
    /\ pc = "map"
    /\ i = page_count
    /\ pc' = "loop"
    /\ printed' = start_printed_page
    /\ UNCHANGED <<inputs, variants, i, printed_to_index, context, paragraph, nraw,
                   trace, opened, origin, visited>>

(* The driving loop, had a missing page ended the paragraph in flight. *)
SkipPage_flushing ==
    /\ pc = "loop"
    /\ printed <= end_printed_page
    /\ printed \notin DOMAIN printed_to_index
    /\ printed' = printed + 1
    /\ SetState(flush(State))
    /\ opened' = 0
    /\ origin' = IF Len(flush(State).results) > Len(results)
                 THEN Append(origin, opened) ELSE origin
    /\ UNCHANGED <<inputs, variants, pc, i, printed_to_index, nraw, trace, visited>>

(* if printed not in printed_to_index: continue                            *)
SkipPage ==
    /\ pc = "loop"
    /\ printed <= end_printed_page
    /\ printed \notin DOMAIN printed_to_index
    /\ printed' = printed + 1
    /\ UNCHANGED <<inputs, variants, pc, i, printed_to_index, context, paragraph, nraw,
                   trace, opened, origin, visited>>

(* The driving loop, had its range run one page past end_printed_page. *)
LoadPage_past_end ==
    /\ pc = "loop"
    /\ printed <= end_printed_page + 1
    /\ printed \in DOMAIN printed_to_index
    /\ pc' = "blocks"
    /\ visited' = Append(visited, printed_to_index[printed])
    /\ UNCHANGED <<inputs, variants, i, printed_to_index, printed, context, paragraph,
                   nraw, trace, opened, origin>>

(* The driving loop, had it flushed the paragraph in flight at each page. *)
LoadPage_flushing ==
    /\ pc = "loop"
    /\ printed <= end_printed_page
    /\ printed \in DOMAIN printed_to_index
    /\ pc' = "blocks"
    /\ visited' = Append(visited, printed_to_index[printed])
    /\ SetState(flush(State))
    /\ opened' = 0
    /\ origin' = IF Len(flush(State).results) > Len(results)
                 THEN Append(origin, opened) ELSE origin
    /\ UNCHANGED <<inputs, variants, i, printed_to_index, printed, context, nraw, trace>>

(* The driving loop, had it loaded the first physical page that resolves   *)
(* to the printed number.                                                  *)
LoadPage_first_match ==
    /\ pc = "loop"
    /\ printed <= end_printed_page
    /\ printed \in DOMAIN printed_to_index
    /\ pc' = "blocks"
    /\ visited' = Append(visited,
                         Min({n \in 0..(page_count - 1) :
                                get_printed_page_number(headers[n + 1], n) = printed}))
    /\ UNCHANGED <<inputs, variants, i, printed_to_index, printed, context, paragraph,
                   nraw, trace, opened, origin>>

(* page = doc.load_page(printed_to_index[printed]); blocks = collect_blocks(page) *)
LoadPage ==
    /\ pc = "loop"
    /\ printed <= end_printed_page
    /\ printed \in DOMAIN printed_to_index
    /\ pc' = "blocks"
    /\ visited' = Append(visited, printed_to_index[printed])
    /\ UNCHANGED <<inputs, variants, i, printed_to_index, printed, context, paragraph,
                   nraw, trace, opened, origin>>

(* One raw block of the page: collect_blocks drops it when its normalized  *)
(* text is empty, otherwise the single pass classifies it.                 *)
ProcessBlock ==
    /\ pc = "blocks"
    /\ nraw < MaxBlocks
    /\ nraw' = nraw + 1
    /\ \E raw \in catalogue :
         LET c == collect_block(raw)
         IN  IF c = None
             THEN UNCHANGED <<context, paragraph, trace, opened, origin>>
             ELSE LET b   == c[1]
                      new == process_block(State, b, printed)
                  IN  /\ SetState(new)
                      /\ trace' = Append(trace, [text |-> b.text,
                                                 max_size |-> b.max_size,
                                                 page |-> printed,
                                                 rule |-> classify(b)])
                      /\ opened' = IF new.cur_para = None THEN 0
                                   ELSE IF classify(b) = "para" THEN Len(trace) + 1
                                   ELSE opened
                      /\ origin' = IF Len(new.results) > Len(results)
                                   THEN Append(origin, opened) ELSE origin
    /\ UNCHANGED <<inputs, variants, pc, i, printed_to_index, printed, visited>>

(* The end of a page's blocks, had the driving loop stayed on the same     *)
(* printed number.                                                         *)
EndPage_same_page ==
    /\ pc = "blocks"
    /\ pc' = "loop"
    /\ printed' = printed
    /\ UNCHANGED <<inputs, variants, i, printed_to_index, context, paragraph, nraw,
                   trace, opened, origin, visited>>

(* The page has no further block: next iteration of the driving loop.      *)
EndPage ==
    /\ pc = "blocks"
    /\ pc' = "loop"
    /\ printed' = printed + 1
    /\ UNCHANGED <<inputs, variants, i, printed_to_index, context, paragraph, nraw,
                   trace, opened, origin, visited>>

(* The end of the run, had it written the results without the last flush. *)
Finish_without_flush ==
    /\ pc = "loop"
    /\ printed > end_printed_page
    /\ pc' = "done"
    /\ UNCHANGED <<inputs, variants, i, printed_to_index, printed, context, paragraph,
                   nraw, trace, opened, origin, visited>>

(* After the loop: flush(), then the results are written.                  *)
Finish ==
    /\ pc = "loop"
    /\ printed > end_printed_page
    /\ pc' = "done"
    /\ SetState(flush(State))
    /\ opened' = 0
    /\ origin' = IF Len(flush(State).results) > Len(results)
                 THEN Append(origin, opened) ELSE origin
    /\ UNCHANGED <<inputs, variants, i, printed_to_index, printed, nraw, trace, visited>>

Next ==
    \/ BuildMap
    \/ StartLoop
    \/ SkipPage
    \/ LoadPage
    \/ ProcessBlock
    \/ EndPage
    \/ Finish

context_v2 == <<current_title, current_section, current_subsection,
                current_chapter_id>>

(* -------------------- json_parserv2.extract_json ---------------------- *)
(* The multi-pass variant.  Its constants, patterns, normalize_text,       *)
(* get_printed_page_number, collect_blocks, flush, page index map and      *)
(* driving loop are those of the single pass, character for character, so  *)
(* the definitions above stand for them (BuildMap, StartLoop, SkipPage,    *)
(* Finish); printed_p is held in `printed`.  What differs is the body of   *)
(* the driving loop: three passes over the page's blocks.                  *)
State_v2 == [current_title |-> current_title, current_section |-> current_section,
             current_subsection |-> current_subsection,
             current_chapter_id |-> current_chapter_id,
             cur_para |-> cur_para, buf |-> buf, results |-> results]

(* blocks = collect_blocks(page): the blocks whose normalized text is not  *)
(* empty, in reading order.                                                *)
RECURSIVE collect_blocks(_)
collect_blocks(raws) ==
    IF raws = <<>> THEN <<>>
    ELSE (IF collect_block(Head(raws)) = None THEN <<>>
          ELSE <<collect_block(Head(raws))[1]>>) \o collect_blocks(Tail(raws))

(* Pass A: detect big chapter titles (>= TITLE_MIN_PT)                     *)
RECURSIVE detect_titles(_, _)
detect_titles(st, bs) ==
    IF bs = <<>> THEN st
    ELSE detect_titles(
           IF title_rule(Head(bs))
           THEN [st EXCEPT !.current_title = Some(Head(bs).text),
                           !.current_section = NA,
                           !.current_subsection = NA,
                           !.current_chapter_id = None]
           ELSE st,
           Tail(bs))

(* The first of the four heading patterns that matches, subsections first; *)
(* the plain-section patterns have no word-count guard here.               *)
heading_match_v2(txt) ==
    IF SUBSEC_NUMDOT_RE_match(txt) # None THEN SUBSEC_NUMDOT_RE_match(txt)
    ELSE IF SUBSEC_ALPHADOT_RE_match(txt) # None THEN SUBSEC_ALPHADOT_RE_match(txt)
    ELSE IF SEC_NUM_RE_match(txt) # None THEN SEC_NUM_RE_match(txt)
    ELSE IF SEC_ALPHA_RE_match(txt) # None THEN SEC_ALPHA_RE_match(txt)
    ELSE None

(* f"{current_chapter_id} {current_title}" if current_title else           *)
(* current_chapter_id                                                      *)
section_label(id, t) ==
    IF t # None /\ t[1] # <<>> THEN id \o <<" ">> \o t[1] ELSE id

(* Pass B, had it kept the first heading of the page. *)
RECURSIVE detect_headings_keeps_first(_, _)
detect_headings_keeps_first(st, bs) ==
    IF bs = <<>> THEN st
    ELSE LET b == Head(bs)
             m == heading_match_v2(b.text)
         IN  IF b.max_size < HEADING_MIN_PT \/ m = None
             THEN detect_headings_keeps_first(st, Tail(bs))
             ELSE [st EXCEPT !.current_chapter_id = Some(m[1]),
                             !.current_section = section_label(m[1], st.current_title),
                             !.current_subsection = b.text]

(* Pass B: detect section/subsection headings in reading order             *)
RECURSIVE detect_headings(_, _)
detect_headings(st, bs) ==
    IF bs = <<>> THEN st
    ELSE LET b == Head(bs)
             m == heading_match_v2(b.text)
         IN  detect_headings(
               IF b.max_size < HEADING_MIN_PT \/ m = None THEN st
               ELSE [st EXCEPT !.current_chapter_id = Some(m[1]),
                               !.current_section = section_label(m[1], st.current_title),
                               !.current_subsection = b.text],
               Tail(bs))

(* Pass C, one block: footnotes, headings and table headings are skipped;  *)
(* a numbered paragraph is opened with the context the passes A and B      *)
(* left; other text continues the paragraph in flight.                     *)
paragraph_pass_v2(st, b, page) ==
    IF b.max_size < FOOTNOTE_MAX_PT THEN st
    ELSE IF \/ b.max_size >= HEADING_MIN_PT /\ heading_match_v2(b.text) # None
            \/ looks_like_table_heading(b.text)
      THEN st
    ELSE IF PARA_START_RE_match(b.text) # None
      THEN LET m    == PARA_START_RE_match(b.text)
               rest == Strip(SubSeq(b.text, m[2], Len(b.text)))
           IN  [flush(st) EXCEPT
                  !.cur_para = Some([title            |-> OptOrNA(st.current_title),
                                     section          |-> StrOrNA(st.current_section),
                                     subsection       |-> StrOrNA(st.current_subsection),
                                     paragraph_number |-> m[1],
                                     page             |-> page,
                                     text             |-> <<>>]),
                  !.buf      = IF rest # <<>> THEN <<rest>> ELSE <<>>]
    ELSE IF st.cur_para # None THEN [st EXCEPT !.buf = Append(@, b.text)]
    ELSE st

(* Pass C: numbered paragraphs                                             *)
RECURSIVE detect_paragraphs(_, _, _)
detect_paragraphs(st, bs, page) ==
    IF bs = <<>> THEN st
    ELSE detect_paragraphs(paragraph_pass_v2(st, Head(bs), page), Tail(bs), page)

(* The blocks of a page, as the history keeps them.                        *)
OnPage(bs, page) ==
    [k \in 1..Len(bs) |-> [text |-> bs[k].text, max_size |-> bs[k].max_size,
                           page |-> page]]

(* page = doc.load_page(pidx); blocks = collect_blocks(page): a multi-pass *)
(* variant holds all the blocks of the page before its first pass.         *)
LoadBlocks(first_pass) ==
    /\ pc = "loop"
    /\ printed <= end_printed_page
    /\ printed \in DOMAIN printed_to_index
    /\ pc' = first_pass
    /\ visited' = Append(visited, printed_to_index[printed])
    /\ \E n \in 0..(MaxBlocks - nraw) : \E raws \in [1..n -> catalogue] :
         /\ blocks' = collect_blocks(raws)
         /\ nraw' = nraw + n
    /\ UNCHANGED <<inputs, i, printed_to_index, printed, context, paragraph,
                   trace, opened, origin, read, current_title, current_section,
                   current_subsection, current_chapter_id, subtitle>>

LoadPage_v2 == LoadBlocks("passA")

PassA ==
    /\ pc = "passA"
    /\ pc' = "passB"
    /\ LET st == detect_titles(State_v2, blocks)
       IN  /\ current_title' = st.current_title
           /\ current_section' = st.current_section
           /\ current_subsection' = st.current_subsection
           /\ current_chapter_id' = st.current_chapter_id
    /\ UNCHANGED <<inputs, i, printed_to_index, printed, context, paragraph,
                   nraw, trace, opened, origin, visited, blocks, read, subtitle>>

PassB ==
    /\ pc = "passB"
    /\ pc' = "passC"
    /\ LET st == detect_headings(State_v2, blocks)
       IN  /\ current_title' = st.current_title
           /\ current_section' = st.current_section
           /\ current_subsection' = st.current_subsection
           /\ current_chapter_id' = st.current_chapter_id
    /\ UNCHANGED <<inputs, i, printed_to_index, printed, context, paragraph,
                   nraw, trace, opened, origin, visited, blocks, read, subtitle>>

(* The third pass, then the next iteration of the driving loop.            *)
PassC ==
    /\ pc = "passC"
    /\ pc' = "loop"
    /\ printed' = printed + 1
    /\ LET st == detect_paragraphs(State_v2, blocks, printed)
       IN  /\ cur_para' = st.cur_para
           /\ buf' = st.buf
           /\ results' = st.results
    /\ read' = read \o OnPage(blocks, printed)
    /\ blocks' = <<>>
    /\ UNCHANGED <<inputs, i, printed_to_index, context, nraw, trace, opened,
                   origin, visited, current_title, current_section,
                   current_subsection, current_chapter_id, subtitle>>

Next_v2 ==
    \/ BuildMap
    \/ StartLoop
    \/ SkipPage
    \/ LoadPage_v2
    \/ PassA
    \/ PassB
    \/ PassC
    \/ Finish

(* The single pass over the same blocks, as a function: the output of      *)
(* json_parserv3.extract_json on the pages read.                           *)
RECURSIVE single_pass(_, _)
single_pass(st, bs) ==
    IF bs = <<>> THEN st
    ELSE single_pass(process_block(st, Head(bs), Head(bs).page), Tail(bs))

single_pass_results ==
    flush(single_pass([title |-> None, section |-> NA, subsection |-> NA,
                       chapter_id |-> None, cur_para |-> None, buf |-> <<>>,
                       results |-> <<>>], read)).results

(* --------------------- json_parser.extract_json ----------------------- *)
(* The first multi-pass variant.  Its normalize_text, header pattern,      *)
(* get_printed_page_number, collect_text_blocks, flush, page index map and *)
(* driving loop are those above; its records have a title and a subtitle.  *)
SUBTITLE_MIN_PT == 125

(* [A-Za-z]; a token that stands for a word counts by its first character. *)
IsLetter(c) ==
    \/ IsUpper(c)
    \/ c \in {"a", "b", "c", "d", "e", "f", "g", "h", "i", "j", "k", "l", "m",
              "n", "o", "p", "q", "r", "s", "t", "u", "v", "w", "x", "y", "z"}
    \/ c \in {RUNNING_TITLE, "Table", "Relevant regulatory references",
              "Contents", "x200"}

(* NUM_SUBTITLE_RE = "^\s*(\d+)\s+[A-Za-z].*"                                *)
NUM_SUBTITLE_RE_match(s) ==
    LET i0 == SkipSpaces(s, 1)
        i1 == SkipDigits(s, i0)
        i2 == SkipSpaces(s, i1)
    IN  i1 > i0 /\ i2 > i1 /\ i2 <= Len(s) /\ IsLetter(s[i2])

State_v1 == [title |-> title, subtitle |-> subtitle, cur_para |-> cur_para,
             buf |-> buf, results |-> results]

(* Pass 1: detect big titles (20pt) for the page                           *)
RECURSIVE detect_big_titles(_, _)
detect_big_titles(st, bs) ==
    IF bs = <<>> THEN st
    ELSE detect_big_titles(
           IF /\ Head(bs).max_size >= TITLE_MIN_PT
              /\ TextLen(Head(bs).text) < 120
              /\ Lower(Head(bs).text) # <<"contents">>
           THEN [st EXCEPT !.title = Some(Head(bs).text), !.subtitle = None]
           ELSE st,
           Tail(bs))

(* The test of pass 2 for a numbered subtitle.                             *)
is_subtitle(b) ==
    /\ SUBTITLE_MIN_PT <= b.max_size /\ b.max_size < TITLE_MIN_PT
    /\ TextLen(b.text) < 220
    /\ NUM_SUBTITLE_RE_match(b.text)

(* Pass 2, had it set the subtitle without ending the paragraph in flight. *)
RECURSIVE detect_subtitles_without_flush(_, _)
detect_subtitles_without_flush(st, bs) ==
    IF bs = <<>> THEN st
    ELSE detect_subtitles_without_flush(
           IF is_subtitle(Head(bs))
           THEN [st EXCEPT !.subtitle = Some(Head(bs).text)]
           ELSE st,
           Tail(bs))

(* Pass 2: detect numbered subtitles (12.5-18pt)                           *)
RECURSIVE detect_subtitles(_, _)
detect_subtitles(st, bs) ==
    IF bs = <<>> THEN st
    ELSE detect_subtitles(
           IF is_subtitle(Head(bs))
           THEN [flush(st) EXCEPT !.subtitle = Some(Head(bs).text)]
           ELSE st,
           Tail(bs))

(* Pass 3, one block: tiny footnotes, table headings and the subtitles     *)
(* themselves are skipped; a numbered paragraph is opened; other text      *)
(* continues the paragraph in flight.                                      *)
paragraph_pass_v1(st, b, page) ==
    IF b.max_size < FOOTNOTE_MAX_PT THEN st
    ELSE IF looks_like_table_heading(b.text) THEN st
    ELSE IF /\ SUBTITLE_MIN_PT <= b.max_size /\ b.max_size < TITLE_MIN_PT
            /\ NUM_SUBTITLE_RE_match(b.text)
      THEN st
    ELSE IF PARA_START_RE_match(b.text) # None
      THEN LET m    == PARA_START_RE_match(b.text)
               rest == Strip(SubSeq(b.text, m[2], Len(b.text)))
           IN  [flush(st) EXCEPT
                  !.cur_para = Some([title            |-> OptOrNA(st.title),
                                     subtitle         |-> OptOrNA(st.subtitle),
                                     paragraph_number |-> m[1],
                                     page             |-> page,
                                     text             |-> <<>>]),
                  !.buf      = IF rest # <<>> THEN <<rest>> ELSE <<>>]
    ELSE IF st.cur_para # None THEN [st EXCEPT !.buf = Append(@, b.text)]
    ELSE st

(* Pass 3: numbered paragraphs and body continuation                       *)
RECURSIVE body_pass(_, _, _)
body_pass(st, bs, page) ==
    IF bs = <<>> THEN st
    ELSE body_pass(paragraph_pass_v1(st, Head(bs), page), Tail(bs), page)

LoadPage_v1 == LoadBlocks("pass1")

Pass1 ==
    /\ pc = "pass1"
    /\ pc' = "pass2"
    /\ LET st == detect_big_titles(State_v1, blocks)
       IN  title' = st.title /\ subtitle' = st.subtitle
    /\ UNCHANGED <<inputs, i, printed_to_index, printed, section, subsection,
                   chapter_id, paragraph, nraw, trace, opened, origin, visited,
                   blocks, read, context_v2>>

Pass2 ==
    /\ pc = "pass2"
    /\ pc' = "pass3"
    /\ LET st == detect_subtitles(State_v1, blocks)
       IN  /\ subtitle' = st.subtitle
           /\ cur_para' = st.cur_para
           /\ buf' = st.buf
           /\ results' = st.results
    /\ UNCHANGED <<inputs, i, printed_to_index, printed, context, nraw, trace,
                   opened, origin, visited, blocks, read, context_v2>>

(* The third pass, then the next iteration of the driving loop.            *)
Pass3 ==
    /\ pc = "pass3"
    /\ pc' = "loop"
    /\ printed' = printed + 1
    /\ LET st == body_pass(State_v1, blocks, printed)
       IN  /\ cur_para' = st.cur_para
           /\ buf' = st.buf
           /\ results' = st.results
    /\ read' = read \o OnPage(blocks, printed)
    /\ blocks' = <<>>
    /\ UNCHANGED <<inputs, i, printed_to_index, context, nraw, trace, opened,
                   origin, visited, context_v2, subtitle>>

Next_v1 ==
    \/ BuildMap
    \/ StartLoop
    \/ SkipPage
    \/ LoadPage_v1
    \/ Pass1
    \/ Pass2
    \/ Pass3
    \/ Finish

(* ------------------------------ inputs -------------------------------- *)
T_Gu   == <<"G", "u">>
T_12s  == <<"1", ".", "2", " ", "s">>
T_A1s  == <<"A", ".", "1", " ", "s">>
T_3st  == <<"3", " ", "s", " ", "t">>
T_Bst  == <<"B", " ", "s", " ", "t">>
T_1a   == <<"1", ".", " ", "a">>
T_2b   == <<"2", ".", " ", "b">>
T_c    == <<"c">>
T_1f   == <<"1", ".", " ", "f">>
T_1H   == <<"1", ".", " ", RUNNING_TITLE, " ", EN_DASH>>
T_a5   == <<"a", " ", "5">>

(* A running header "ECB guide to internal models -- a <n>"                *)
HeaderText(n) == <<RUNNING_TITLE, " ", EN_DASH, " ", "a", " ", n>>

B_Title    == Block(T_Gu, 200)
B_SubNum   == Block(T_12s, 140)
B_SubAlpha == Block(T_A1s, 140)
B_SecNum   == Block(T_3st, 140)
B_SecAlpha == Block(T_Bst, 140)
B_Para1    == Block(T_1a, 110)
B_Para2    == Block(T_2b, 110)
B_Cont     == Block(T_c, 110)
B_Foot     == Block(T_1f, 70)
B_FootHead == Block(T_12s, 70)
B_ParaHdr  == Block(T_1H, 110)
B_ContNum  == Block(T_a5, 110)
B_Header   == Block(HeaderText("5"), 90)

B_BigHead  == Block(T_12s, 200)

T_Table1    == <<"Table", " ", "1">>
B_BigPara   == Block(T_1a, 200)
B_BigTable  == Block(T_Table1, 200)
B_Table     == Block(T_Table1, 110)

T_3s        == <<"3", " ", "s">>
T_Bs        == <<"B", " ", "s">>
B_ShortNum   == Block(T_3s, 140)
B_ShortAlpha == Block(T_Bs, 140)

T_TableLong == <<"Table", " ", "x200">>
T_Refs      == <<"Relevant regulatory references">>
B_MidTable  == Block(T_Table1, 140)
B_LongTable == Block(T_TableLong, 200)
B_MidRefs   == Block(T_Refs, 140)

T_Contents  == <<"Contents">>
T_1Long     == <<"1", ".", " ", "x200">>
B_Contents  == Block(T_Contents, 200)
B_LongPara  == Block(T_1Long, 200)
B_MidPara   == Block(T_2b, 140)
B_MidCont   == Block(T_c, 140)

CoreCatalogue     == {B_Title, B_SubNum, B_Para1, B_Para2, B_Cont}
NoiseCatalogue    == {B_Para1, B_Cont, B_Foot, B_FootHead, B_Header}
StripCatalogue    == {B_Para1, B_ParaHdr, B_ContNum, B_SubNum}
HeadingsCatalogue == {B_Title, B_BigHead, B_SubNum, B_SubAlpha, B_SecNum, B_SecAlpha}
PagesCatalogue    == {B_Para1, B_Cont}

(* Header areas: no running header, or one that prints page 1 or page 2.   *)
NoHeader == <<>>
HeaderAreas == {NoHeader, <<Block(HeaderText("1"), 90)>>, <<Block(HeaderText("2"), 90)>>}

(* Documents of 1..MaxPages physical pages whose header areas are drawn    *)
(* from H.                                                                 *)
Docs(H) == UNION {[1..n -> H] : n \in 1..MaxPages}

InitWith(cat, docs, ranges) ==
    /\ catalogue = cat
    /\ headers \in docs
    /\ \E r \in ranges : start_printed_page = r[1] /\ end_printed_page = r[2]
    /\ pc = "map"
    /\ i = 0
    /\ printed_to_index = <<>>
    /\ printed = 0
    /\ title = None
    /\ section = NA
    /\ subsection = NA
    /\ chapter_id = None
    /\ cur_para = None
    /\ buf = <<>>
    /\ results = <<>>
    /\ nraw = 0
    /\ trace = <<>>
    /\ opened = 0
    /\ origin = <<>>
    /\ visited = <<>>
    /\ blocks = <<>>
    /\ read = <<>>
    /\ current_title = None
    /\ current_section = NA
    /\ current_subsection = NA
    /\ current_chapter_id = None
    /\ subtitle = None

(* Pages without a running header (printed number = physical index + 1),   *)
(* the whole document in range.                                            *)
PlainDocs == Docs({NoHeader})
WholeRange == {<<1, MaxPages>>}

(* The structural blocks of a chapter.                                     *)
Init == InitWith(CoreCatalogue, PlainDocs, WholeRange)
Spec == Init /\ [][Next]_vars

(* Footnote-sized blocks and a running-header block among body text.       *)
InitNoise == InitWith(NoiseCatalogue, PlainDocs, WholeRange)
SpecNoise == InitNoise /\ [][Next]_vars

(* Body text holding remnants of a running header.                         *)
InitStrip == InitWith(StripCatalogue, PlainDocs, WholeRange)
SpecStrip == InitStrip /\ [][Next]_vars

(* The four heading shapes, at heading size and at title size, on a        *)
(* one-page document; the requested range runs one page past it.           *)
InitHeadings == InitWith(HeadingsCatalogue, {<<NoHeader>>}, {<<1, 2>>})
SpecHeadings == InitHeadings /\ [][Next]_vars

(* Blocks that satisfy more than one test of the single pass: a paragraph  *)
(* start and a table caption at title size, a paragraph start at footnote  *)
(* size, a table caption at body size; on a one-page document.             *)
PriorityCatalogue == {B_BigPara, B_BigTable, B_SubNum, B_Table, B_Foot, B_Para1, B_Cont}
InitPriority == InitWith(PriorityCatalogue, {<<NoHeader>>}, {<<1, 2>>})
SpecPriority == InitPriority /\ [][Next]_vars

(* Documents in which a page may print the number 3, so that the           *)
(* requested range 1..3 has numbers no page resolves to, before, between   *)
(* or after the pages present.                                             *)
GapHeaderAreas == {NoHeader, <<Block(HeaderText("3"), 90)>>}
InitGaps == InitWith(PagesCatalogue, Docs(GapHeaderAreas), {<<1, 3>>})
SpecGaps == InitGaps /\ [][Next]_vars

(* Paragraphs whose text is kept and paragraphs whose text normalizes to   *)
(* nothing, in a run that is taken to its end.  extract_json is sequential *)
(* code whose loops are bounded (range(...) and the blocks of a page): the *)
(* map loop, the driving loop and the end of a page's blocks each go on    *)
(* when they can, and the code after the driving loop runs once the loop   *)
(* is over (LeaveLoop: the step Finish, told by the program counter).      *)
EndCatalogue == {B_Para1, B_ParaHdr, B_ContNum}
InitEnd == InitWith(EndCatalogue, PlainDocs, WholeRange)
LeaveLoop == pc = "loop" /\ printed > end_printed_page /\ pc' = "done"
Sequential ==
    /\ WF_vars(BuildMap) /\ WF_vars(StartLoop)
    /\ WF_vars(SkipPage) /\ WF_vars(LoadPage) /\ WF_vars(EndPage)
    /\ WF_pc(LeaveLoop)
SpecEndFair == InitEnd /\ [][Next]_vars /\ Sequential

(* Inputs of normalize_text: a word broken in two, by a hyphen and a line  *)
(* break or otherwise, and texts put together from pieces of a running     *)
(* header.  A run reads one such text, as the only block its page holds,   *)
(* and normalizes it when it collects the block.                           *)
T_model == <<"m", "o", "d", "e", "l">>
T_based == <<"b", "a", "s", "e", "d">>
HyphenBreak == <<"-", "NL">>
Breaks == {HyphenBreak, <<"-">>, <<"NL">>, <<"SHY">>, <<"-", "SHY", "NL">>,
           <<"-", "NL", "NL">>, <<" ">>}
FirstHalves  == {T_model, <<"m">>}
SecondHalves == {T_based, <<"b">>}
BrokenWords == {a \o br \o b : a \in FirstHalves, br \in Breaks, b \in SecondHalves}
HeaderParts == {<<RUNNING_TITLE>>,
                <<RUNNING_TITLE, " ", EN_DASH, " ", "5", " ", "5">>,
                <<EN_DASH, " ", "5", " ", "5">>,
                <<"a">>}
HeaderTexts == {Join(<<p, q, r>>) : p \in HeaderParts, q \in HeaderParts, r \in HeaderParts}
NormalizeInputs == BrokenWords \cup HeaderTexts
InitNormalize ==
    \E s \in NormalizeInputs : InitWith({Block(s, 110)}, {<<NoHeader>>}, {<<1, 2>>})
SpecNormalize == InitNormalize /\ [][Next]_vars

(* Pages whose header area holds several blocks: a running header after a  *)
(* block of other text, two running headers with different numbers, a      *)
(* running header followed by more text (so not at the end of its block),  *)
(* one preceded by text, and one with a two-digit number and a trailing    *)
(* space.                                                                  *)
H_TextThenHeader == <<Block(T_c, 110), Block(HeaderText("2"), 90)>>
H_TwoHeaders     == <<Block(HeaderText("2"), 90), Block(HeaderText("1"), 90)>>
H_NotAtEnd       == <<Block(HeaderText("2") \o <<" ", "x">>, 90)>>
H_Prefixed       == <<Block(<<"x", " ">> \o HeaderText("1"), 90)>>
H_TwoDigits      == <<Block(HeaderText("1") \o <<"2", " ">>, 90)>>
MultiHeaderAreas == {NoHeader, H_TextThenHeader, H_TwoHeaders, H_NotAtEnd,
                     H_Prefixed, H_TwoDigits}
InitHeaders == InitWith({B_Para1}, Docs(MultiHeaderAreas), {<<1, 2>>})
SpecHeaders == InitHeaders /\ [][Next]_vars

(* Headings of two words and of three, dotted and undotted, under a title; *)
(* on a one-page document.                                                 *)
WordsCatalogue == {B_Title, B_SubNum, B_SubAlpha, B_SecNum, B_SecAlpha,
                   B_ShortNum, B_ShortAlpha}
InitWords == InitWith(WordsCatalogue, {<<NoHeader>>}, {<<1, 2>>})
SpecWords == InitWords /\ [][Next]_vars

(* Table captions at body size, at heading size and at title size (one of *)
(* them too long for a title) around a paragraph; on a one-page document.  *)
TablesCatalogue == {B_Para1, B_Cont, B_Table, B_MidTable, B_MidRefs, B_BigTable,
                    B_LongTable}
InitTables == InitWith(TablesCatalogue, {<<NoHeader>>}, {<<1, 2>>})
SpecTables == InitTables /\ [][Next]_vars

(* Two chapter titles, a heading and a paragraph start, in any order; on a *)
(* one-page document.                                                      *)
ContextCatalogue == {B_Title, B_BigHead, B_SubNum, B_Para1}
InitContext == InitWith(ContextCatalogue, {<<NoHeader>>}, {<<1, 2>>})
SpecContext == InitContext /\ [][Next]_vars

(* Blocks of heading size or title size that are neither titles nor       *)
(* headings: "Contents" and a text of more than 200 characters at title    *)
(* size, a paragraph start, plain text, a two-word heading and a table     *)
(* caption at heading size; on a one-page document.                        *)
LargeCatalogue == {B_Contents, B_LongPara, B_MidPara, B_MidCont, B_ShortNum,
                   B_MidTable}
InitLarge == InitWith(LargeCatalogue, {<<NoHeader>>}, {<<1, 2>>})
SpecLarge == InitLarge /\ [][Next]_vars

(* Documents in which any page may print the number 1 in its running      *)
(* header, so that several physical pages resolve to the printed number 1; *)
(* the run is taken to its end.                                            *)
DuplicateHeaderAreas == {NoHeader, <<Block(HeaderText("1"), 90)>>}
InitDuplicates == InitWith(PagesCatalogue, Docs(DuplicateHeaderAreas), WholeRange)
SpecDuplicatesFair == InitDuplicates /\ [][Next]_vars /\ Sequential

(* The multi-pass variant json_parserv2 on pages of titles, two kinds of  *)
(* headings and paragraph starts in any order.                             *)
MultiPassCatalogue == {B_Title, B_SubNum, B_SubAlpha, B_Para1}
InitMultiPass == InitWith(MultiPassCatalogue, PlainDocs, WholeRange)
SpecMultiPass == InitMultiPass /\ [][Next_v2]_vars

(* The first variant json_parser on pages of titles, numbered subtitles,   *)
(* paragraph starts and plain text in any order.                           *)
FirstVariantCatalogue == {B_Title, B_SecNum, B_Para1, B_Cont}
InitFirstVariant == InitWith(FirstVariantCatalogue, PlainDocs, WholeRange)
SpecFirstVariant == InitFirstVariant /\ [][Next_v1]_vars

(* Documents with running headers (missing, repeated, out of order) and    *)
(* every requested range over 1..MaxPages+1.                               *)
Ranges == {r \in (1..(MaxPages + 1)) \X (1..(MaxPages + 1)) : r[1] <= r[2]}
InitPages == InitWith(PagesCatalogue, Docs(HeaderAreas), Ranges)
SpecPages == InitPages /\ [][Next]_vars

(* ====================================================================== *)
(* Properties.  They read the history: trace (the blocks in the order the  *)
(* single pass saw them), opened and origin (which block opened the        *)
(* paragraph in flight and each emitted record) and visited.               *)
(* ====================================================================== *)
Last(q) == q[Len(q)]

(* A step of the single pass that classified one more block.               *)
Classified == Len(trace') = Len(trace) + 1

TitleIdx   == {k \in 1..Len(trace) : trace[k].rule = "title"}
HeadingIdx == {k \in 1..Len(trace) : trace[k].rule = "heading"}
ParaIdx    == {k \in 1..Len(trace) : trace[k].rule = "para"}

(* ---------------------------------------------------------------------- *)
(* C1: a block that matches a heading sub-rule while a paragraph is in     *)
(* flight flushes that paragraph: no paragraph in flight was opened        *)
(* before a heading block that has been processed since.                   *)
C1_HeadingFlushesParagraph ==
    cur_para # None => \A h \in HeadingIdx : h < opened

(* ---------------------------------------------------------------------- *)
(* C2: a block whose max font size is below FOOTNOTE_MAX_PT changes        *)
(* neither the heading context nor the paragraph in flight, its buffer or  *)
(* the output, whatever its text matches.                                  *)
C2_FootnoteInert ==
    [][(Classified /\ Last(trace').max_size < FOOTNOTE_MAX_PT)
         => UNCHANGED <<context, paragraph>>]_vars

(* A run that ended with a record, after footnote-sized blocks shaped like *)
(* a paragraph start and like a heading were read inside its paragraph.    *)
C2_Witness ==
    /\ pc = "done"
    /\ Len(results) = 1
    /\ \E j, k \in 2..Len(trace) :
         /\ trace[j].max_size < FOOTNOTE_MAX_PT
         /\ PARA_START_RE_match(trace[j].text) # None
         /\ trace[k].max_size < FOOTNOTE_MAX_PT
         /\ SUBSEC_NUMDOT_RE_match(trace[k].text) # None
         /\ origin[1] < j /\ origin[1] < k

(* ---------------------------------------------------------------------- *)
(* The paragraph opened by block o of the trace runs to the block before   *)
(* the next paragraph start, or to the end of what has been read.          *)
NextParaAfter(o) ==
    IF \E j \in ParaIdx : j > o THEN Min({j \in ParaIdx : j > o})
    ELSE Len(trace) + 1

(* It has been flushed once the next paragraph start or the end of the     *)
(* range was reached.                                                      *)
Closed(o) == NextParaAfter(o) <= Len(trace) \/ pc = "done"

(* The remainder of a paragraph-start text after "<int>. "                 *)
Remainder(txt) == Strip(SubSeq(txt, PARA_START_RE_match(txt)[2], Len(txt)))

RECURSIVE ContTexts(_, _)
ContTexts(lo, hi) ==
    IF lo > hi THEN <<>>
    ELSE (IF trace[lo].rule = "cont" THEN <<trace[lo].text>> ELSE <<>>)
         \o ContTexts(lo + 1, hi)

(* Remainder of the opening block, then the continuation blocks' texts.    *)
Pieces(o) ==
    (IF Remainder(trace[o].text) # <<>> THEN <<Remainder(trace[o].text)>> ELSE <<>>)
    \o ContTexts(o + 1, NextParaAfter(o) - 1)

Origins == {origin[k] : k \in 1..Len(origin)}

(* The paragraph in flight is the last one opened, with all its pieces so  *)
(* far, on whatever page they were read.                                   *)
InFlightIsLastOpened ==
    (pc # "done" /\ ParaIdx # {}) =>
        /\ cur_para # None
        /\ opened = Max(ParaIdx)
        /\ buf = Pieces(opened)

(* C3 as stated: every paragraph that was opened and has ended is emitted  *)
(* as one record whose text is the remainder of its opening block followed *)
(* by the texts of its continuation blocks, joined in reading order, and a *)
(* page boundary does not end the paragraph in flight.                     *)
C3_TextIsJoinOfPieces ==
    /\ Len(origin) = Len(results)
    /\ \A k \in 1..Len(results) : \A j \in 1..(k - 1) : origin[j] < origin[k]
    /\ Origins = {o \in ParaIdx : Closed(o)}
    /\ \A k \in 1..Len(results) : results[k].text = Join(Pieces(origin[k]))
    /\ InFlightIsLastOpened

(* C3, amended: the record's text is the normalization of that join, and   *)
(* the record is emitted only when that normalized text is not empty.      *)
C3_TextIsNormalizedJoin ==
    /\ Len(origin) = Len(results)
    /\ \A k \in 1..Len(results) : \A j \in 1..(k - 1) : origin[j] < origin[k]
    /\ \A o \in ParaIdx :
         LET t == normalize_text(Join(Pieces(o)))
         IN  /\ o \in Origins <=> (Closed(o) /\ t # <<>>)
             /\ \A k \in 1..Len(results) : origin[k] = o => results[k].text = t
    /\ Origins \subseteq ParaIdx
    /\ InFlightIsLastOpened

(* A record whose paragraph was opened on one page and took a continuation *)
(* block from a later page.                                                *)
C3_Witness ==
    \E k \in 1..Len(results) :
      \E j \in (origin[k] + 1)..(NextParaAfter(origin[k]) - 1) :
        /\ trace[j].rule = "cont"
        /\ trace[j].page > trace[origin[k]].page
        /\ results[k].page = trace[origin[k]].page
        /\ Len(Pieces(origin[k])) >= 2

(* ---------------------------------------------------------------------- *)
(* The heading context in front of block o, read off the trace: the last   *)
(* title block before o, and the last heading block between it and o.      *)
LastTitleBefore(o) ==
    IF \E t \in TitleIdx : t < o THEN Max({t \in TitleIdx : t < o}) ELSE 0

LastHeadingBefore(o) ==
    IF \E h \in HeadingIdx : LastTitleBefore(o) < h /\ h < o
    THEN Max({h \in HeadingIdx : h < o}) ELSE 0

TitleBefore(o) ==
    IF LastTitleBefore(o) = 0 THEN NA ELSE trace[LastTitleBefore(o)].text

SubsectionBefore(o) ==
    IF LastHeadingBefore(o) = 0 THEN NA ELSE trace[LastHeadingBefore(o)].text

SectionBefore(o) ==
    IF LastHeadingBefore(o) = 0 THEN NA ELSE TitleBefore(o)

(* The leading integer or letter of a text.                                *)
LeadingId(txt) ==
    IF IsDigit(txt[1]) THEN SubSeq(txt, 1, SkipDigits(txt, 1) - 1) ELSE <<txt[1]>>

StampedAt(rec, o) ==
    /\ rec.title = TitleBefore(o)
    /\ rec.section = SectionBefore(o)
    /\ rec.subsection = SubsectionBefore(o)
    /\ rec.paragraph_number = LeadingId(trace[o].text)
    /\ rec.page = trace[o].page

(* C4: the title, section, subsection, paragraph number and page of every  *)
(* record, emitted or in flight, are those in force when the block that    *)
(* opened it was processed, whatever was read afterwards.                  *)
C4_RecordStampedAtOpening ==
    /\ \A k \in 1..Len(results) : StampedAt(results[k], origin[k])
    /\ cur_para # None => StampedAt(cur_para[1], opened)

(* A record emitted although a title or heading block, on a later page,    *)
(* was read between its opening block and its flush.                       *)
C4_Witness ==
    \E k \in 1..Len(results) :
      \E j \in (origin[k] + 1)..(NextParaAfter(origin[k]) - 1) :
        /\ trace[j].rule \in {"title", "heading"}
        /\ trace[j].page > trace[origin[k]].page
        /\ results[k].title = NA /\ results[k].subsection = NA

(* ---------------------------------------------------------------------- *)
(* C5: a record whose subsection is not "N/A" has it from a heading block  *)
(* processed before the block that opened the record, with no title block  *)
(* between the two.                                                        *)
C5_SubsectionFromEarlierHeading ==
    \A k \in 1..Len(results) :
      results[k].subsection # NA =>
        \E h \in HeadingIdx :
          /\ h < origin[k]
          /\ trace[h].text = results[k].subsection
          /\ \A t \in TitleIdx : ~(h < t /\ t < origin[k])

(* A record that carries a subsection set inside a chapter.                *)
C5_Witness ==
    \E k \in 1..Len(results) :
      /\ results[k].subsection = T_12s
      /\ results[k].title = T_Gu
      /\ LastTitleBefore(origin[k]) < LastHeadingBefore(origin[k])

(* ---------------------------------------------------------------------- *)
(* C6: from a title block until the next heading block, section and        *)
(* subsection are "N/A" and chapter_id is unset, and a paragraph opened in *)
(* between carries section = subsection = "N/A" and the new title.         *)
AfterTitle(o) == LastTitleBefore(o) # 0 /\ LastHeadingBefore(o) = 0

C6_TitleResetsHeadings ==
    /\ AfterTitle(Len(trace) + 1) =>
         /\ title = Some(TitleBefore(Len(trace) + 1))
         /\ section = NA /\ subsection = NA /\ chapter_id = None
    /\ \A k \in 1..Len(results) :
         AfterTitle(origin[k]) =>
           /\ results[k].title = TitleBefore(origin[k])
           /\ results[k].section = NA /\ results[k].subsection = NA
    /\ (cur_para # None /\ AfterTitle(opened)) =>
           /\ cur_para[1].title = TitleBefore(opened)
           /\ cur_para[1].section = NA /\ cur_para[1].subsection = NA

(* A record opened after a title that followed a heading with a title of   *)
(* its own: the title block had a section and a subsection to reset.       *)
C6_Witness ==
    \E k \in 1..Len(results) :
      /\ AfterTitle(origin[k])
      /\ results[k].title = T_Gu
      /\ \E h \in HeadingIdx : \E t \in TitleIdx : t < h /\ h < LastTitleBefore(origin[k])

(* ---------------------------------------------------------------------- *)
(* The text has one of the four heading shapes, the two undotted ones only *)
(* with more than two words.                                               *)
HasHeadingShape(txt) ==
    \/ SUBSEC_NUMDOT_RE_match(txt) # None
    \/ SUBSEC_ALPHADOT_RE_match(txt) # None
    \/ SEC_NUM_RE_match(txt) # None /\ WordCount(txt) > 2
    \/ SEC_ALPHA_RE_match(txt) # None /\ WordCount(txt) > 2

HeadingEffect(b) ==
    /\ chapter_id' = Some(LeadingId(b.text))
    /\ section' = OptOrNA(title)
    /\ subsection' = b.text

(* C7 as stated: every block of size >= HEADING_MIN_PT with a heading      *)
(* shape sets chapter_id to its leading integer or letter, section to the  *)
(* current title (or "N/A") and subsection to its full text.               *)
C7_HeadingSizeBlockSetsContext ==
    [][(Classified /\ Last(trace').max_size >= HEADING_MIN_PT
                   /\ HasHeadingShape(Last(trace').text))
         => HeadingEffect(Last(trace'))]_vars

(* C7, amended: ... every such block to which the chapter-title rule does  *)
(* not apply ...                                                           *)
C7_HeadingBlockSetsContext ==
    [][(Classified /\ Last(trace').max_size >= HEADING_MIN_PT
                   /\ ~title_rule(Last(trace'))
                   /\ HasHeadingShape(Last(trace').text))
         => HeadingEffect(Last(trace'))]_vars

(* A lettered section heading has taken effect under a title, after a      *)
(* numbered subsection heading.                                            *)
C7_Witness ==
    /\ title = Some(T_Gu)
    /\ section = T_Gu
    /\ subsection = T_Bst
    /\ chapter_id = Some(<<"B">>)
    /\ \E a \in 1..Len(trace) :
         trace[a].text = T_12s /\ trace[a].max_size = 140

(* ---------------------------------------------------------------------- *)
(* The printed number each physical page (0-based index n) resolves to.    *)
Resolved(n) == get_printed_page_number(headers[n + 1], n)
Physical == 0..(page_count - 1)
InRange(n) == start_printed_page <= n /\ n <= end_printed_page

(* C8: only physical pages whose printed number lies in [start, end] are   *)
(* loaded, and every block classified and every record, emitted or in      *)
(* flight, belongs to such a page.                                         *)
C8_OnlyPagesInRange ==
    /\ \A k \in 1..Len(visited) : InRange(Resolved(visited[k]))
    /\ \A k \in 1..Len(trace) : InRange(trace[k].page)
    /\ \A k \in 1..Len(results) : InRange(results[k].page)
    /\ cur_para # None => InRange(cur_para[1].page)
    /\ Len(visited) = 0 => (trace = <<>> /\ results = <<>> /\ title = None)

(* A finished run with a record, on a document that has a page outside the *)
(* requested range.                                                        *)
C8_Witness ==
    /\ pc = "done"
    /\ Len(results) >= 1
    /\ \E n \in Physical : ~InRange(Resolved(n))

(* ---------------------------------------------------------------------- *)
(* C9 as stated: once the map is built, every physical page index is the   *)
(* value of some printed page number in it.                                *)
C9_MapCoversEveryPage ==
    pc # "map" =>
      \A n \in Physical : \E k \in DOMAIN printed_to_index : printed_to_index[k] = n

(* C9, amended: once the map is built, the printed number of every         *)
(* physical page (from its header, or index + 1) is a key of the map, the  *)
(* map has no other key, and each key maps to the highest physical index   *)
(* that resolves to it.                                                    *)
C9_MapCoversEveryPrintedNumber ==
    pc # "map" =>
      /\ DOMAIN printed_to_index = {Resolved(n) : n \in Physical}
      /\ \A n \in Physical :
           printed_to_index[Resolved(n)] = Max({j \in Physical : Resolved(j) = Resolved(n)})

(* A built map for a document in which two pages resolve to one number,    *)
(* one of them through the index + 1 fallback.                             *)
C9_Witness ==
    /\ pc # "map"
    /\ \E m, n \in Physical :
         /\ m < n
         /\ Resolved(m) = Resolved(n)
         /\ headers[m + 1] = NoHeader
         /\ headers[n + 1] # NoHeader
         /\ printed_to_index[Resolved(m)] = n

(* ---------------------------------------------------------------------- *)
(* C10: no record of the output has an empty text; a flush of the current  *)
(* state leaves no paragraph in flight and an empty buffer, and emits      *)
(* nothing when the joined, normalized buffer is empty; the final flush    *)
(* has left the run in that state.                                         *)
C10_NoEmptyRecord ==
    LET f == flush(State)
    IN  /\ \A k \in 1..Len(results) : results[k].text # <<>>
        /\ f.cur_para = None
        /\ f.buf = <<>>
        /\ normalize_text(Join(buf)) = <<>> => f.results = results
        /\ pc = "done" => (cur_para = None /\ buf = <<>>)

(* A finished run in which one paragraph was emitted and another, whose    *)
(* buffer normalized to the empty text, was dropped.                       *)
C10_Witness ==
    /\ pc = "done"
    /\ Len(results) = 1
    /\ \E o \in ParaIdx : Pieces(o) # <<>> /\ normalize_text(Join(Pieces(o))) = <<>>

(* ---------------------------------------------------------------------- *)
(* C11: a flush with no paragraph in flight changes nothing (output,       *)
(* heading context, paragraph in flight, buffer); a second flush right     *)
(* after a flush changes nothing either; and no paragraph is emitted       *)
(* twice: the records of the output come from distinct opening blocks.     *)
C11_FlushWithoutParagraphIsNoOp ==
    LET f == flush(State)
    IN  /\ cur_para = None => f = State
        /\ flush(f) = f
        /\ \A j, k \in 1..Len(origin) : j # k => origin[j] # origin[k]

(* A finished run that read a heading and stray text but no paragraph      *)
(* start: its final flush found no paragraph in flight.                    *)
C11_Witness ==
    /\ pc = "done"
    /\ ParaIdx = {}
    /\ subsection = T_12s
    /\ \E k \in 1..Len(trace) : trace[k].rule = "cont"
    /\ results = <<>>

(* ---------------------------------------------------------------------- *)
(* The five tests of the single pass, each on its own, and the effect of   *)
(* each rule on the variables.                                             *)
IsTitle(b)   == b.max_size >= TITLE_MIN_PT /\ TextLen(b.text) < 200
                /\ Lower(b.text) # <<"contents">>
IsHeading(b) == b.max_size >= HEADING_MIN_PT /\ HasHeadingShape(b.text)
IsSkipped(b) == b.max_size < FOOTNOTE_MAX_PT \/ looks_like_table_heading(b.text)
IsParaStart(b) == PARA_START_RE_match(b.text) # None

TitleEffect(b) ==
    /\ title' = Some(b.text)
    /\ section' = NA /\ subsection' = NA /\ chapter_id' = None
    /\ UNCHANGED paragraph

ParaStartEffect(b) ==
    /\ UNCHANGED context
    /\ cur_para' # None
    /\ cur_para'[1].paragraph_number = LeadingId(b.text)
    /\ cur_para'[1].page = b.page
    /\ buf' = (IF Remainder(b.text) # <<>> THEN <<Remainder(b.text)>> ELSE <<>>)
    /\ Len(results') \in {Len(results), Len(results) + 1}
    /\ SubSeq(results', 1, Len(results)) = results

ContinuationEffect(b) ==
    /\ UNCHANGED <<context, cur_para, results>>
    /\ buf' = (IF cur_para # None THEN Append(buf, b.text) ELSE buf)

(* C12: each block takes the effect of exactly one rule, the first in the  *)
(* order title, heading, footnote/table, paragraph start, continuation     *)
(* whose test it satisfies; so a block that satisfies the title test or a  *)
(* heading test leaves the paragraph in flight, the buffer and the output  *)
(* as they were, whatever else its text matches.                           *)
C12_FirstMatchingRuleWins ==
    [][Classified =>
         LET b == Last(trace')
         IN  /\ IF IsTitle(b) THEN TitleEffect(b)
                ELSE IF IsHeading(b)
                  THEN HeadingEffect(b) /\ UNCHANGED <<title, paragraph>>
                ELSE IF IsSkipped(b) THEN UNCHANGED <<context, paragraph>>
                ELSE IF IsParaStart(b) THEN ParaStartEffect(b)
                ELSE ContinuationEffect(b)
             /\ (IsTitle(b) \/ IsHeading(b)) => UNCHANGED <<cur_para, buf>>]_vars

(* A paragraph in flight, opened by the first block, after a block shaped  *)
(* like a paragraph start and one shaped like a table caption were both    *)
(* taken as chapter titles.                                                *)
C12_Witness ==
    /\ cur_para # None /\ opened = 1 /\ buf = <<<<"a">>>>
    /\ results = <<>>
    /\ title = Some(T_Table1)
    /\ \E k \in 2..Len(trace) :
         trace[k].text = T_1a /\ trace[k].max_size >= TITLE_MIN_PT

(* ---------------------------------------------------------------------- *)
(* A block that reaches the footnote/table test and satisfies it.          *)
Discarded(b) == ~IsTitle(b) /\ ~IsHeading(b) /\ IsSkipped(b)

(* C13: a block discarded by the footnote/table rule leaves the heading    *)
(* context, the paragraph in flight, the buffer and the output unchanged;  *)
(* the paragraph in flight keeps every continuation block read since its   *)
(* opening block, discarded blocks in between or not, and a record's text  *)
(* is made of all the continuation blocks of its paragraph.                *)
C13_DiscardedBlockInert ==
    /\ [][(Classified /\ Discarded(Last(trace')))
            => UNCHANGED <<context, paragraph>>]_vars
    /\ [](/\ InFlightIsLastOpened
          /\ \A k \in 1..Len(results) :
               results[k].text = normalize_text(Join(Pieces(origin[k]))))

(* A finished run whose one record holds the two continuation blocks read  *)
(* before and after a footnote-sized block.                                *)
C13_Witness ==
    /\ pc = "done"
    /\ Len(trace) = 4
    /\ trace[2].rule = "cont"
    /\ trace[3].max_size < FOOTNOTE_MAX_PT
    /\ trace[4].rule = "cont"
    /\ Len(results) = 1
    /\ results[1].text = <<"a", " ", "c", " ", "c">>

(* ---------------------------------------------------------------------- *)
(* C14: a block taken as a chapter title leaves the paragraph in flight,   *)
(* the buffer and the output unchanged, and the paragraph in flight before *)
(* it takes the continuation blocks that follow it.                        *)
C14_TitleKeepsParagraph ==
    /\ [][(Classified /\ IsTitle(Last(trace'))) => UNCHANGED paragraph]_vars
    /\ [][(Classified /\ cur_para # None /\ Len(trace) >= 1
             /\ IsTitle(Last(trace)) /\ Last(trace').rule = "cont")
            => (cur_para' = cur_para /\ buf' = Append(buf, Last(trace').text))]_vars

(* A record opened before a chapter title that holds a continuation block  *)
(* read after the title, and carries the headings in force when it opened. *)
C14_Witness ==
    \E k \in 1..Len(results) :
      /\ origin[k] + 2 <= Len(trace)
      /\ trace[origin[k] + 1].rule = "title"
      /\ trace[origin[k] + 2].rule = "cont"
      /\ results[k].text = <<"a", " ", "c">>
      /\ results[k].title = NA

(* ---------------------------------------------------------------------- *)
(* A block that reaches the continuation rule.                             *)
IsContinuation(b) ==
    ~IsTitle(b) /\ ~IsHeading(b) /\ ~IsSkipped(b) /\ ~IsParaStart(b)

CountIn(s, c) == Cardinality({k \in 1..Len(s) : s[k] = c})

(* C15: a block that reaches the continuation rule while no paragraph is   *)
(* in flight changes nothing; no paragraph in flight means an empty buffer *)
(* and, until the run ends, that no paragraph start was read yet; and a    *)
(* record holds as many continuation texts ("c") as there are continuation *)
(* blocks between its opening block and the next paragraph start, so none  *)
(* from before its opening block.                                          *)
C15_StrayTextDiscarded ==
    /\ [][(Classified /\ IsContinuation(Last(trace')) /\ cur_para = None)
            => UNCHANGED <<context, paragraph>>]_vars
    /\ [](/\ cur_para = None => buf = <<>>
          /\ (cur_para = None /\ pc # "done") => (ParaIdx = {} /\ results = <<>>)
          /\ \A k \in 1..Len(results) :
               CountIn(results[k].text, "c") =
                 Cardinality({j \in (origin[k] + 1)..(NextParaAfter(origin[k]) - 1) :
                                trace[j].text = T_c}))

(* A finished run that read stray text, then a paragraph start: the one    *)
(* record holds the paragraph's own text only.                             *)
C15_Witness ==
    /\ pc = "done"
    /\ Len(trace) >= 2
    /\ trace[1].text = T_c
    /\ Len(results) = 1
    /\ origin[1] = 2
    /\ CountIn(results[1].text, "c") = 0

(* ---------------------------------------------------------------------- *)
(* The driving loop stands at a printed number of the range that is not a  *)
(* key of the page index map.                                              *)
AtGap ==
    /\ pc = "loop"
    /\ printed <= end_printed_page
    /\ printed \notin DOMAIN printed_to_index

(* C16: at a printed number of the range with no entry in the map, the     *)
(* driving loop moves to the next number and changes nothing else: heading *)
(* context, paragraph in flight, buffer, output, pages loaded; and the     *)
(* paragraph in flight is still the last one opened, with all its pieces,  *)
(* whatever gap lies between the pages they were read on.                  *)
C16_GapSkipped ==
    /\ [][AtGap => /\ printed' = printed + 1
                   /\ pc' = "loop"
                   /\ UNCHANGED <<context, paragraph, trace, visited>>]_vars
    /\ []InFlightIsLastOpened

(* A record opened on printed page 1 that holds a continuation block of    *)
(* printed page 3, in a document with no page 2.                           *)
C16_Witness ==
    /\ 2 \notin DOMAIN printed_to_index
    /\ \E k \in 1..Len(results) :
         /\ results[k].page = 1
         /\ results[k].text = <<"a", " ", "c">>
         /\ \E j \in (origin[k] + 1)..(NextParaAfter(origin[k]) - 1) :
              trace[j].page = 3 /\ trace[j].rule = "cont"

(* ---------------------------------------------------------------------- *)
PairwiseDistinct(q) == \A j, k \in 1..Len(q) : j # k => q[j] # q[k]

(* C17 as stated: the run ends, with no paragraph in flight; at its end    *)
(* the paragraph-start blocks whose accumulated text (remainder and        *)
(* continuation texts, joined) is not empty have one record each and the   *)
(* others none; there are never more records than paragraph-start blocks.  *)
C17_OneRecordPerNonEmptyParagraph ==
    /\ <>(pc = "done")
    /\ [](pc = "done" =>
            /\ cur_para = None
            /\ PairwiseDistinct(origin)
            /\ Origins = {o \in ParaIdx : Join(Pieces(o)) # <<>>})
    /\ [](Len(results) <= Cardinality(ParaIdx))

(* C17, amended: ... whose accumulated text, once normalized, is not       *)
(* empty ...                                                               *)
C17_OneRecordPerParagraphWithText ==
    /\ <>(pc = "done")
    /\ [](pc = "done" =>
            /\ cur_para = None
            /\ PairwiseDistinct(origin)
            /\ Origins = {o \in ParaIdx : normalize_text(Join(Pieces(o))) # <<>>})
    /\ [](Len(results) <= Cardinality(ParaIdx))

(* A finished run of two paragraphs: the first normalized to nothing and   *)
(* was dropped, the second was still in flight after the last page and     *)
(* was emitted by the final flush.                                         *)
C17_Witness ==
    /\ pc = "done"
    /\ Cardinality(ParaIdx) = 2
    /\ Len(results) = 1
    /\ origin[1] = Max(ParaIdx)
    /\ NextParaAfter(origin[1]) = Len(trace) + 1

(* ---------------------------------------------------------------------- *)
(* C18: the output only grows at its end; its records are in the order in  *)
(* which their opening blocks were processed, each with the page of its    *)
(* opening block, and their pages never decrease from first to last.       *)
C18_RecordsInReadingOrder ==
    /\ [][\/ results' = results
          \/ /\ Len(results') = Len(results) + 1
             /\ SubSeq(results', 1, Len(results)) = results]_vars
    /\ [](/\ Len(origin) = Len(results)
          /\ \A j, k \in 1..Len(results) :
               j < k => /\ origin[j] < origin[k]
                        /\ results[j].page <= results[k].page
          /\ \A k \in 1..Len(results) : results[k].page = trace[origin[k]].page)

(* Two records, of printed pages 1 and 2, from a document whose first      *)
(* physical page prints 2 and whose second prints 1.                       *)
C18_Witness ==
    /\ Len(results) = 2
    /\ results[1].page = 1 /\ results[2].page = 2
    /\ visited = <<1, 0>>

(* ---------------------------------------------------------------------- *)
(* C19: normalize_text is idempotent: the text of a collected block, which *)
(* is normalize_text of the block's raw text, is left as it is by          *)
(* normalize_text.                                                         *)
C19_NormalizeIdempotent ==
    \A k \in 1..Len(trace) : normalize_text(trace[k].text) = trace[k].text

(* ---------------------------------------------------------------------- *)
(* The run reads the raw text s.                                           *)
Reads(s) == catalogue = {Block(s, 110)}

(* C20 as stated: normalize_text of "model-\nbased" is "model-based".      *)
C20_HyphenBreakKeepsHyphen ==
    \A k \in 1..Len(trace) :
      Reads(T_model \o HyphenBreak \o T_based)
        => trace[k].text = T_model \o <<"-">> \o T_based

(* C20, amended: normalize_text of a word split by a hyphen followed by a  *)
(* line break rejoins the parts with neither the hyphen nor a space at the *)
(* break: normalize_text("model-\nbased") is "modelbased".                 *)
C20_HyphenBreakRemoved ==
    \A k \in 1..Len(trace) :
      \A a \in FirstHalves, b \in SecondHalves :
        Reads(a \o HyphenBreak \o b) => trace[k].text = a \o b

(* The block "model-\nbased" has been collected, as "modelbased".          *)
C20_Witness ==
    /\ Reads(T_model \o HyphenBreak \o T_based)
    /\ Len(trace) >= 1
    /\ trace[1].text = T_model \o T_based

(* ---------------------------------------------------------------------- *)
(* The integer written by the digits a text ends with (trailing spaces     *)
(* apart).                                                                 *)
RECURSIVE TrailingDigits(_)
TrailingDigits(s) ==
    IF s # <<>> /\ IsDigit(s[Len(s)])
    THEN Append(TrailingDigits(SubSeq(s, 1, Len(s) - 1)), s[Len(s)])
    ELSE <<>>

TrailingInt(s) == DigitsToInt(TrailingDigits(RStrip(s)))

(* The blocks of physical page n (0-based) whose text ends with the        *)
(* running-header pattern, and the number the page is expected to get.     *)
HeaderBlocks(n) ==
    {k \in 1..Len(headers[n + 1]) :
        HEADER_NUM_RE_search(RawText(headers[n + 1][k])) # None}

ExpectedNumber(n) ==
    IF HeaderBlocks(n) = {} THEN n + 1
    ELSE TrailingInt(RawText(headers[n + 1][Min(HeaderBlocks(n))]))

(* C21: the step that resolves physical page i enters it in the map under  *)
(* the integer at the end of the first block, in block order, whose text   *)
(* ends with the running-header pattern, or under i + 1 when the page has  *)
(* no such block; and every page of every document gets a number.          *)
C21_FirstHeaderBlockOrFallback ==
    /\ [][(pc = "map" /\ i' = i + 1) =>
            /\ DOMAIN printed_to_index' = DOMAIN printed_to_index \cup {ExpectedNumber(i)}
            /\ printed_to_index'[ExpectedNumber(i)] = i
            /\ \A k \in DOMAIN printed_to_index :
                 k # ExpectedNumber(i) => printed_to_index'[k] = printed_to_index[k]]_vars
    /\ [](/\ pc = "map" => i <= page_count
          /\ pc # "map" =>
               /\ i = page_count
               /\ \A n \in Physical :
                    ExpectedNumber(n) \in Nat /\ ExpectedNumber(n) \in DOMAIN printed_to_index)

(* A built map for a document whose first page holds two running headers   *)
(* (the first one counts, the number of the second is no key) and whose    *)
(* second page has a running header that is not at the end of its block    *)
(* (so the page falls back to its index plus one).                         *)
C21_Witness ==
    /\ pc # "map"
    /\ headers = <<H_TwoHeaders, H_NotAtEnd>>
    /\ DOMAIN printed_to_index = {2}
    /\ printed_to_index[2] = 1

(* ---------------------------------------------------------------------- *)
DottedShape(txt) ==
    SUBSEC_NUMDOT_RE_match(txt) # None \/ SUBSEC_ALPHADOT_RE_match(txt) # None

UndottedShape(txt) ==
    SEC_NUM_RE_match(txt) # None \/ SEC_ALPHA_RE_match(txt) # None

(* C22: of the blocks the heading rule is tried on (size at least          *)
(* HEADING_MIN_PT, not taken as chapter title), one with the numeric- or   *)
(* alphabetic-section shape sets chapter_id, section and subsection when   *)
(* it has more than two words and leaves the heading context as it was     *)
(* when it has two or fewer; one with a dotted subsection shape sets them  *)
(* whatever its number of words.                                           *)
C22_WordCountGuard ==
    [][(Classified /\ Last(trace').max_size >= HEADING_MIN_PT
                   /\ ~IsTitle(Last(trace')))
         => LET b == Last(trace')
            IN  /\ UndottedShape(b.text) =>
                     IF WordCount(b.text) > 2 THEN HeadingEffect(b)
                     ELSE UNCHANGED context
                /\ DottedShape(b.text) => HeadingEffect(b)]_vars

(* Under a title, the two-word heading "1.2 s" has set the context and the *)
(* two-word fragment "3 s", read after it at heading size, has not.        *)
C22_Witness ==
    /\ Len(trace) >= 3
    /\ Last(trace).text = T_3s /\ Last(trace).max_size = 140
    /\ title = Some(T_Gu)
    /\ section = T_Gu
    /\ subsection = T_12s
    /\ chapter_id = Some(<<"1">>)

(* ---------------------------------------------------------------------- *)
(* C23 as stated: a block with a table-heading prefix and size at least    *)
(* HEADING_MIN_PT is not filtered: read while a paragraph is in flight, it *)
(* takes effect as a chapter title or is appended to the paragraph (its    *)
(* text has no heading shape and is no paragraph start).                   *)
C23_LargeTableCaptionKept ==
    [][(Classified /\ looks_like_table_heading(Last(trace').text)
                   /\ Last(trace').max_size >= HEADING_MIN_PT
                   /\ cur_para # None)
         => \/ TitleEffect(Last(trace'))
            \/ ContinuationEffect(Last(trace'))]_vars

(* C23, amended: a block with a table-heading prefix escapes the           *)
(* footnote/table rule only when the chapter-title rule takes it (size at  *)
(* least TITLE_MIN_PT, fewer than 200 characters); at any other size,      *)
(* HEADING_MIN_PT and above included, it is discarded with no effect.      *)
C23_TableCaptionKeptOnlyAsTitle ==
    [][(Classified /\ looks_like_table_heading(Last(trace').text))
         => IF Last(trace').max_size >= TITLE_MIN_PT
               /\ TextLen(Last(trace').text) < 200
            THEN TitleEffect(Last(trace'))
            ELSE UNCHANGED <<context, paragraph>>]_vars

(* A paragraph in flight that kept its one piece of text while a table     *)
(* caption of heading size and an over-long one of title size were read,   *)
(* and a caption of title size was taken as chapter title.                 *)
C23_Witness ==
    /\ cur_para # None /\ opened = 1 /\ buf = <<<<"a">>>>
    /\ title = Some(T_Table1)
    /\ \E j, k \in 2..Len(trace) :
         /\ trace[j].text = T_Table1 /\ trace[j].max_size = 140
         /\ trace[k].text = T_TableLong /\ trace[k].max_size = 200

(* ---------------------------------------------------------------------- *)
(* C24: the single pass classifies one block per step and never goes back  *)
(* to a block it has classified (the trace only grows, by one entry per    *)
(* block collected, and a raw block read yields at most one entry); the    *)
(* pages are loaded in strictly ascending printed number, whatever their   *)
(* physical order, so no physical page is loaded twice; and the blocks are *)
(* classified page by page, each under the printed number of the page      *)
(* loaded last.                                                            *)
C24_SinglePassAscendingPages ==
    /\ [](/\ \A j, k \in 1..Len(visited) :
                j < k => Resolved(visited[j]) < Resolved(visited[k])
          /\ PairwiseDistinct(visited)
          /\ Len(trace) <= nraw
          /\ \A k \in 1..Len(trace) :
                /\ \E j \in 1..Len(visited) : Resolved(visited[j]) = trace[k].page
                /\ k > 1 => trace[k - 1].page <= trace[k].page
          /\ pc = "blocks" => Resolved(Last(visited)) = printed)
    /\ [][/\ Len(trace') <= Len(trace) + 1
          /\ SubSeq(trace', 1, Len(trace)) = trace
          /\ Len(trace') > Len(trace) =>
                (nraw' = nraw + 1 /\ Last(trace').page = Resolved(Last(visited)))
          /\ Len(visited') > Len(visited) =>
                (visited' = Append(visited, printed_to_index[printed]) /\ trace' = trace)]_vars

(* Two pages in the reverse of their physical order (the second page       *)
(* prints 1 and the first prints 2), blocks classified on both.            *)
C24_Witness ==
    /\ visited = <<1, 0>>
    /\ Len(trace) >= 3
    /\ trace[1].page = 1
    /\ Last(trace).page = 2

(* ---------------------------------------------------------------------- *)
(* C25: whenever no paragraph is in flight the buffer is empty; a step     *)
(* that changes the buffer to a non-empty one leaves a paragraph in        *)
(* flight; and a paragraph opened while none was in flight starts with a   *)
(* buffer that holds the remainder of its opening block and nothing else.  *)
C25_BufferOnlyInsideParagraph ==
    /\ [](cur_para = None => buf = <<>>)
    /\ [][(buf' # buf /\ buf' # <<>>) => cur_para' # None]_vars
    /\ [][(cur_para = None /\ cur_para' # None) =>
            /\ Classified
            /\ IsParaStart(Last(trace'))
            /\ buf' = (IF Remainder(Last(trace').text) # <<>>
                       THEN <<Remainder(Last(trace').text)>> ELSE <<>>)]_vars

(* Stray text and a footnote-sized block were read before the first        *)
(* paragraph start; the paragraph in flight holds its own text and the     *)
(* continuation block read after its start.                                *)
C25_Witness ==
    /\ cur_para # None
    /\ Len(trace) = 4
    /\ trace[1].rule = "cont"
    /\ trace[2].rule = "skip"
    /\ trace[3].rule = "para"
    /\ trace[4].rule = "cont"
    /\ buf = <<Remainder(trace[3].text), trace[4].text>>

(* ---------------------------------------------------------------------- *)
(* A record's section is "N/A" or its title, and it has a subsection       *)
(* whenever it has a section.                                              *)
SectionConsistent(rec) ==
    /\ rec.section = NA \/ rec.section = rec.title
    /\ rec.section # NA => rec.subsection # NA

C27_LargeBlockFallsThrough ==
    [][(/\ Classified
        /\ Last(trace').max_size >= HEADING_MIN_PT
        /\ ~IsTitle(Last(trace'))
        /\ ~IsHeading(Last(trace')))
         => IF looks_like_table_heading(Last(trace').text)
              THEN UNCHANGED <<context, paragraph>>
            ELSE IF IsParaStart(Last(trace'))
              THEN ParaStartEffect(Last(trace'))
            ELSE /\ ContinuationEffect(Last(trace'))
                 /\ cur_para # None => buf' # buf]_vars

(* A paragraph opened by a block of title size with more than 200          *)
(* characters, which then took "Contents" at title size and a two-word     *)
(* heading at heading size as continuation text.                           *)
C27_Witness ==
    /\ Len(trace) = 3
    /\ trace[1].text = T_1Long /\ trace[1].max_size = 200
    /\ cur_para # None
    /\ cur_para[1].paragraph_number = <<"1">>
    /\ buf = <<<<"x200">>, T_Contents, T_3s>>
    /\ title = None
    /\ subsection = NA

(* ---------------------------------------------------------------------- *)
(* A physical page whose printed number a later physical page resolves to  *)
(* as well.                                                                *)
Shadowed(n) == \E j \in Physical : j > n /\ Resolved(j) = Resolved(n)

(* C28: once the map is built, a printed number that several physical      *)
(* pages resolve to maps to the one with the highest index, and no key     *)
(* maps to an earlier one; such an earlier page is never loaded and no     *)
(* block is classified while it is the page loaded; every index in the     *)
(* map is a page of the document, and the run reaches its end.             *)
C28_LastPageOfANumberWins ==
    /\ [](pc # "map" =>
            /\ \A k \in DOMAIN printed_to_index :
                  /\ printed_to_index[k] \in Physical
                  /\ ~Shadowed(printed_to_index[k])
            /\ \A n \in Physical :
                  Shadowed(n) => /\ printed_to_index[Resolved(n)] > n
                                 /\ Resolved(printed_to_index[Resolved(n)]) = Resolved(n))
    /\ [](\A k \in 1..Len(visited) : ~Shadowed(visited[k]))
    /\ [][Classified => ~Shadowed(Last(visited))]_vars
    /\ <>(pc = "done")

(* A finished run on a document whose two pages both resolve to the        *)
(* printed number 1: the second page alone was loaded, and gave a record.  *)
C28_Witness ==
    /\ pc = "done"
    /\ page_count = 2
    /\ Resolved(0) = 1 /\ Resolved(1) = 1
    /\ visited = <<1>>
    /\ Len(results) >= 1

(* ---------------------------------------------------------------------- *)
(* The title blocks and the heading blocks of a page, as the passes A and  *)
(* B of json_parserv2 take them.                                           *)
TitlesOf(bs) == {k \in 1..Len(bs) : title_rule(bs[k])}
HeadingsOf(bs) ==
    {k \in 1..Len(bs) :
       bs[k].max_size >= HEADING_MIN_PT /\ heading_match_v2(bs[k].text) # None}

(* A block that opens a paragraph in pass C.                               *)
OpensParagraph_v2(b) ==
    /\ b.max_size >= FOOTNOTE_MAX_PT
    /\ ~(b.max_size >= HEADING_MIN_PT /\ heading_match_v2(b.text) # None)
    /\ ~looks_like_table_heading(b.text)
    /\ PARA_START_RE_match(b.text) # None

(* The record carries the context of json_parserv2 as it stands.           *)
CarriesContext(rec) ==
    /\ rec.title = OptOrNA(current_title)
    /\ rec.section = current_section
    /\ rec.subsection = current_subsection

(* A page on which a title or heading block follows a paragraph start.     *)
HeadingAfterParagraph(p) ==
    \E j, k \in 1..Len(read) :
      /\ j < k
      /\ read[j].page = p /\ read[k].page = p
      /\ OpensParagraph_v2(read[j])
      /\ k \in TitlesOf(read) \cup HeadingsOf(read)

RecordsOn(rs, p) == SelectSeq(rs, LAMBDA r : r.page = p)

(* C29: in json_parserv2 the passes over a page's titles and headings open *)
(* no paragraph and end none; the first leaves the title of the page's     *)
(* last title block (with section and subsection reset), the second the    *)
(* section and subsection of the page's last heading block, wherever on    *)
(* the page these blocks stand; every paragraph the third pass opens on    *)
(* the page carries the context so left; and the records of a page on      *)
(* which a title or heading block follows a paragraph start are not those  *)
(* the single pass gives for that page.                                    *)
C29_ContextOfWholePageStamped ==
    /\ [][(pc = "passA" /\ pc' = "passB") =>
            /\ UNCHANGED <<paragraph, blocks>>
            /\ IF TitlesOf(blocks) # {}
               THEN /\ current_title' = Some(blocks[Max(TitlesOf(blocks))].text)
                    /\ current_section' = NA
                    /\ current_subsection' = NA
                    /\ current_chapter_id' = None
               ELSE UNCHANGED context_v2]_vars
    /\ [][(pc = "passB" /\ pc' = "passC") =>
            /\ UNCHANGED <<paragraph, blocks, current_title>>
            /\ IF HeadingsOf(blocks) # {}
               THEN LET h == blocks[Max(HeadingsOf(blocks))]
                    IN  /\ current_subsection' = h.text
                        /\ current_chapter_id' = Some(LeadingId(h.text))
                        /\ current_section' =
                             section_label(LeadingId(h.text), current_title)
               ELSE UNCHANGED context_v2]_vars
    /\ [][(pc = "passC" /\ pc' = "loop") =>
            /\ UNCHANGED context_v2
            /\ SubSeq(results', 1, Len(results)) = results
            /\ \A k \in (Len(results) + 1)..Len(results') :
                 results'[k].page = printed => CarriesContext(results'[k])
            /\ (cur_para' # None /\ cur_para'[1].page = printed)
                 => CarriesContext(cur_para'[1])
            /\ (\E k \in 1..Len(blocks) : OpensParagraph_v2(blocks[k]))
                 => (cur_para' # None /\ cur_para'[1].page = printed)]_vars
    /\ [](pc = "done" =>
            \A p \in 1..MaxPages :
              HeadingAfterParagraph(p) =>
                RecordsOn(results, p) # RecordsOn(single_pass_results, p))

(* A finished run on a page that holds a paragraph start and then a        *)
(* heading: the multi-pass record has the heading as its subsection, the   *)
(* single pass's record, with the same text, has none.                     *)
C29_Witness ==
    /\ pc = "done"
    /\ Len(read) = 2
    /\ read[1].text = T_1a /\ read[2].text = T_12s /\ read[2].page = read[1].page
    /\ Len(results) = 1
    /\ results[1].subsection = T_12s
    /\ results[1].section = <<"1">>
    /\ Len(single_pass_results) = 1
    /\ single_pass_results[1].subsection = NA
    /\ single_pass_results[1].text = results[1].text

(* ---------------------------------------------------------------------- *)
(* A page of json_parser with a numbered subtitle, and the first block of  *)
(* a page that opens a paragraph in pass 3 (past the end if none does).    *)
HasSubtitle(bs) == \E k \in 1..Len(bs) : is_subtitle(bs[k])

OpensParagraph_v1(b) ==
    /\ b.max_size >= FOOTNOTE_MAX_PT
    /\ ~looks_like_table_heading(b.text)
    /\ ~(SUBTITLE_MIN_PT <= b.max_size /\ b.max_size < TITLE_MIN_PT
         /\ NUM_SUBTITLE_RE_match(b.text))
    /\ PARA_START_RE_match(b.text) # None

FirstParagraph_v1(bs) ==
    IF \E k \in 1..Len(bs) : OpensParagraph_v1(bs[k])
    THEN Min({k \in 1..Len(bs) : OpensParagraph_v1(bs[k])})
    ELSE Len(bs) + 1

(* C30: in json_parser, on a page that holds a numbered subtitle, the      *)
(* second pass ends the paragraph in flight with the text it had when the  *)
(* page was loaded, so the third pass starts with no paragraph in flight   *)
(* and an empty buffer; the blocks of the page before its first paragraph  *)
(* start then leave nothing behind: the third pass gives what it gives on  *)
(* the page without them, and changes neither the output nor the paragraph *)
(* state if the page has no paragraph start.                               *)
C30_SubtitleEndsParagraphFirst ==
    /\ [][(pc = "pass2" /\ pc' = "pass3" /\ HasSubtitle(blocks)) =>
            /\ cur_para' = None
            /\ buf' = <<>>
            /\ results' = IF cur_para # None /\ normalize_text(Join(buf)) # <<>>
                          THEN Append(results,
                                      [cur_para[1] EXCEPT
                                         !.text = normalize_text(Join(buf))])
                          ELSE results]_vars
    /\ []((pc = "pass3" /\ HasSubtitle(blocks)) => (cur_para = None /\ buf = <<>>))
    /\ [][(pc = "pass3" /\ pc' = "loop" /\ HasSubtitle(blocks)) =>
            LET f  == FirstParagraph_v1(blocks)
                st == body_pass(State_v1, SubSeq(blocks, f, Len(blocks)), printed)
            IN  /\ f > Len(blocks) => UNCHANGED paragraph
                /\ cur_para' = st.cur_para
                /\ buf' = st.buf
                /\ results' = st.results
                /\ SubSeq(results', 1, Len(results)) = results]_vars

(* A finished run: a paragraph opened on the first page; the second page   *)
(* holds plain text and then a numbered subtitle.  The one record has the  *)
(* paragraph's own text, without the plain text of the second page.        *)
C30_Witness ==
    /\ pc = "done"
    /\ Len(read) = 3
    /\ read[1].text = T_1a /\ read[1].page = 1
    /\ read[2].text = T_c /\ read[2].page = 2
    /\ read[3].text = T_3st /\ read[3].page = 2
    /\ Len(results) = 1
    /\ results[1].text = <<"a">>
    /\ results[1].page = 1
    /\ results[1].subtitle = NA

====
